---- MODULE Spec2Model ----
(***************************************************************************)
(* Accent-Chess: the UCI dispatcher (uci_handler.py) with its phase state  *)
(* machine, driven by run() over a stream of input lines, on top of an     *)
(* abstract GameConnector whose calls return or raise nondeterministically. *)
(* The tracked Position is a chess.Board; the parts of the chess library   *)
(* the dispatcher calls (Board(fen), Move.from_uci, Move.uci, Board.push)  *)
(* are modelled by what they do on an 8x8 board.  Further specifications   *)
(* cover utils/moveFromFens.py on pairs of boards, initialize/shutdown of  *)
(* the Chess_19xx and Grandmaster_Chess connectors, and their              *)
(* setup_position / wait_for_engine_move in front of a polled screen.      *)
(***************************************************************************)
EXTENDS Integers, Sequences, FiniteSets, TLC

(***************************************************************************)
(* chess library: colours, pieces, squares, moves                          *)
(***************************************************************************)
WHITE == TRUE
BLACK == FALSE

Squares == 0..63
FileOf(sq) == sq % 8
RankOf(sq) == sq \div 8
SquareAt(file, rank) == rank * 8 + file

FILE_NAMES == <<"a", "b", "c", "d", "e", "f", "g", "h">>
RANK_NAMES == <<"1", "2", "3", "4", "5", "6", "7", "8">>
\* chess.SQUARE_NAMES
SQUARE_NAMES == [i \in 1..64 |-> FILE_NAMES[FileOf(i - 1) + 1] \o RANK_NAMES[RankOf(i - 1) + 1]]
SquareName(sq) == SQUARE_NAMES[sq + 1]

\* piece types by their chess.PIECE_SYMBOLS letter; "" is "no piece type" (None)
PIECE_SYMBOLS == <<"p", "n", "b", "r", "q", "k">>
PieceTypes == {PIECE_SYMBOLS[i] : i \in 1..Len(PIECE_SYMBOLS)}
NoType == ""

NoPiece == [t |-> NoType, c |-> WHITE]
Piece(type, color) == [t |-> type, c |-> color]

A1 == SquareAt(0, 0)
C1 == SquareAt(2, 0)
D1 == SquareAt(3, 0)
E1 == SquareAt(4, 0)
F1 == SquareAt(5, 0)
G1 == SquareAt(6, 0)
H1 == SquareAt(7, 0)
A8 == SquareAt(0, 7)
C8 == SquareAt(2, 7)
D8 == SquareAt(3, 7)
E8 == SquareAt(4, 7)
F8 == SquareAt(5, 7)
G8 == SquareAt(6, 7)
H8 == SquareAt(7, 7)
RankSquares(rank) == {sq \in Squares : RankOf(sq) = rank}

\* chess.Move(from_square, to_square, promotion)
Move(from, to, promotion) == [from |-> from, to |-> to, promotion |-> promotion]
NullMove == Move(0, 0, NoType)
\* Move.__bool__: the null move is falsy
MoveBool(m) == m.from # 0 \/ m.to # 0 \/ m.promotion # NoType

\* Move.uci()
MoveUci(m) ==
    IF MoveBool(m)
    THEN SquareName(m.from) \o SquareName(m.to) \o m.promotion
    ELSE "0000"

\* the move tokens a position line may carry in this model
MoveTokens == {"e2e4", "e7e5", "e4e5", "d7d8q", "0000", "e2e9", "zz"}

\* Move.from_uci(token): "0000" is the null move; otherwise the token is two
\* square names and, as a fifth character, a piece symbol; a move from a square
\* to itself and every other token is a ValueError
SquarePairs == {<<f, t>> : f \in Squares, t \in Squares}
Promotions == PieceTypes \cup {NoType}
FromUciTable ==
    [tok \in MoveTokens |->
        LET fits(ft, p) == SQUARE_NAMES[ft[1] + 1] \o SQUARE_NAMES[ft[2] + 1] \o p = tok
        IN  IF tok = "0000" THEN [ok |-> TRUE, move |-> NullMove]
            ELSE IF \E ft \in SquarePairs, p \in Promotions : ft[1] # ft[2] /\ fits(ft, p)
            THEN LET ft == CHOOSE ft \in SquarePairs :
                               ft[1] # ft[2] /\ \E p \in Promotions : fits(ft, p)
                     pr == CHOOSE p \in Promotions : fits(ft, p)
                 IN  [ok |-> TRUE, move |-> Move(ft[1], ft[2], pr)]
            ELSE [ok |-> FALSE, move |-> NullMove]]
FromUci(tok) == FromUciTable[tok]

(***************************************************************************)
(* chess library: Board                                                    *)
(*   pcs       piece on each square (NoPiece when empty)                   *)
(*   turn      side to move                                                *)
(*   castling  squares of the rooks that keep castling rights              *)
(*   ep        the en-passant square, as a set with at most one element    *)
(*   hm, fm    halfmove clock and fullmove number                          *)
(*   promoted  squares holding promoted pieces                             *)
(*   played    the board's move stack is not empty                         *)
(***************************************************************************)
BACK_RANK == <<"r", "n", "b", "q", "k", "b", "n", "r">>

EmptyPieces == [sq \in Squares |-> NoPiece]

StartingPieces ==
    [sq \in Squares |->
        CASE RankOf(sq) = 0 -> Piece(BACK_RANK[FileOf(sq) + 1], WHITE)
          [] RankOf(sq) = 1 -> Piece("p", WHITE)
          [] RankOf(sq) = 6 -> Piece("p", BLACK)
          [] RankOf(sq) = 7 -> Piece(BACK_RANK[FileOf(sq) + 1], BLACK)
          [] OTHER -> NoPiece]

MakeBoard(pcs, turn, castling, ep, hm, fm) ==
    [pcs |-> pcs, turn |-> turn, castling |-> castling, ep |-> ep,
     hm |-> hm, fm |-> fm, promoted |-> {}, played |-> FALSE]

\* Board(STARTING_FEN)
StartingBoard == MakeBoard(StartingPieces, WHITE, {A1, H1, A8, H8}, {}, 0, 1)

\* placement of 8/3P4/8/6k1/8/8/1K6/8
PromotionPieces ==
    [EmptyPieces EXCEPT ![SquareAt(3, 6)] = Piece("p", WHITE),
                        ![SquareAt(6, 4)] = Piece("k", BLACK),
                        ![SquareAt(1, 1)] = Piece("k", WHITE)]

\* the board parts of a FEN this model's input can carry; any other token is
\* not a valid board part
FenPlacements ==
    [x \in {"rnbqkbnr/pppppppp/8/8/8/8/PPPPPPPP/RNBQKBNR", "8/3P4/8/6k1/8/8/1K6/8"} |->
        IF x = "8/3P4/8/6k1/8/8/1K6/8" THEN PromotionPieces ELSE StartingPieces]
FenTurns == [x \in {"w", "b"} |-> x = "w"]
FenCastlings == [x \in {"-", "KQkq"} |-> IF x = "-" THEN {} ELSE {A1, H1, A8, H8}]
FenNumbers == <<"0", "1", "2", "3", "4", "5", "6", "7", "8", "9">>
IsFenNumber(x) == \E i \in 1..Len(FenNumbers) : FenNumbers[i] = x
FenInt(x) == (CHOOSE i \in 1..Len(FenNumbers) : FenNumbers[i] = x) - 1
IsFenEp(x) == x = "-" \/ \E sq \in Squares : SquareName(sq) = x
FenEp(x) == IF x = "-" THEN {} ELSE {CHOOSE sq \in Squares : SquareName(sq) = x}
Max(a, b) == IF a >= b THEN a ELSE b

\* Board(' '.join(parts)): Board.set_fen on the whitespace separated parts of a
\* FEN; missing trailing parts take their defaults, an invalid part, an empty
\* FEN and a part too many are a ValueError
ParseFen(parts) ==
    LET n == Len(parts)
        bad == [ok |-> FALSE, board |-> StartingBoard]
    IN  IF n = 0 \/ n > 6 THEN bad
        ELSE IF parts[1] \notin DOMAIN FenPlacements THEN bad
        ELSE IF n >= 2 /\ parts[2] \notin DOMAIN FenTurns THEN bad
        ELSE IF n >= 3 /\ parts[3] \notin DOMAIN FenCastlings THEN bad
        ELSE IF n >= 4 /\ ~IsFenEp(parts[4]) THEN bad
        ELSE IF n >= 5 /\ ~IsFenNumber(parts[5]) THEN bad
        ELSE IF n >= 6 /\ ~IsFenNumber(parts[6]) THEN bad
        ELSE [ok |-> TRUE,
              board |-> MakeBoard(
                  FenPlacements[parts[1]],
                  IF n >= 2 THEN FenTurns[parts[2]] ELSE WHITE,
                  IF n >= 3 THEN FenCastlings[parts[3]] ELSE {},
                  IF n >= 4 THEN FenEp(parts[4]) ELSE {},
                  IF n >= 5 THEN FenInt(parts[5]) ELSE 0,
                  IF n >= 6 THEN Max(FenInt(parts[6]), 1) ELSE 1)]

PieceAt(b, sq) == b.pcs[sq]
TypeAt(b, sq) == b.pcs[sq].t
OwnAt(b, sq, color) == b.pcs[sq].t # NoType /\ b.pcs[sq].c = color

\* Board._remove_piece_at / Board._set_piece_at
RemovePieceAt(b, sq) ==
    [b EXCEPT !.pcs[sq] = NoPiece, !.promoted = @ \ {sq}]
SetPieceAt(b, sq, type, color, promoted) ==
    [b EXCEPT !.pcs[sq] = Piece(type, color),
              !.promoted = IF promoted THEN @ \cup {sq} ELSE @ \ {sq}]

\* Board.clean_castling_rights (standard chess)
CleanCastlingRights(b) ==
    IF b.played THEN b.castling
    ELSE LET rooks == {sq \in b.castling : TypeAt(b, sq) = "r"}
             white == IF OwnAt(b, E1, WHITE) /\ TypeAt(b, E1) = "k" /\ E1 \notin b.promoted
                      THEN {sq \in rooks \cap {A1, H1} : OwnAt(b, sq, WHITE)}
                      ELSE {}
             black == IF OwnAt(b, E8, BLACK) /\ TypeAt(b, E8) = "k" /\ E8 \notin b.promoted
                      THEN {sq \in rooks \cap {A8, H8} : OwnAt(b, sq, BLACK)}
                      ELSE {}
         IN  white \cup black

\* Board._to_chess960: a king's e1g1/e1c1/e8g8/e8c8 is the king taking its rook
ToChess960(b, m) ==
    IF m.from = E1 /\ TypeAt(b, E1) = "k"
    THEN IF m.to = G1 /\ TypeAt(b, G1) # "r" THEN Move(E1, H1, NoType)
         ELSE IF m.to = C1 /\ TypeAt(b, C1) # "r" THEN Move(E1, A1, NoType)
         ELSE m
    ELSE IF m.from = E8 /\ TypeAt(b, E8) = "k"
    THEN IF m.to = G8 /\ TypeAt(b, G8) # "r" THEN Move(E8, H8, NoType)
         ELSE IF m.to = C8 /\ TypeAt(b, C8) # "r" THEN Move(E8, A8, NoType)
         ELSE m
    ELSE m

\* Board.is_zeroing: a pawn, or a piece of the side not to move, on either square
IsZeroing(b, m) ==
    \E sq \in {m.from, m.to} : TypeAt(b, sq) = "p" \/ OwnAt(b, sq, ~b.turn)

Abs(x) == IF x < 0 THEN 0 - x ELSE x
\* Board.push up to its assertion: castling rights cleaned, the move stacked, the
\* en-passant square reset, the counters advanced, the origin square emptied
PushBegin(b, m) ==
    [RemovePieceAt(b, m.from) EXCEPT
        !.castling = CleanCastlingRights(b),
        !.played = TRUE,
        !.ep = {},
        !.hm = IF MoveBool(m) /\ IsZeroing(b, m) THEN 0 ELSE b.hm + 1,
        !.fm = IF b.turn = BLACK THEN b.fm + 1 ELSE b.fm]

\* Board.push, castling rights after the move
PushCastlingRights(b, m, b1) ==
    LET kept == b1.castling \ {m.from, m.to}
        backRank == IF b.turn = WHITE THEN RankSquares(0) ELSE RankSquares(7)
    IN  IF TypeAt(b, m.from) = "k" /\ m.from \notin b.promoted
        THEN kept \ backRank
        ELSE IF TypeAt(b, m.to) = "k" /\ m.to \notin b.promoted
        THEN IF b.turn = WHITE /\ RankOf(m.to) = 7 THEN kept \ RankSquares(7)
             ELSE IF b.turn = BLACK /\ RankOf(m.to) = 0 THEN kept \ RankSquares(0)
             ELSE kept
        ELSE kept

\* Board.push, the special pawn moves: the new en-passant square after a double
\* step, and the pawn taken en passant
PushPawn(b, m, b1) ==
    LET diff == m.to - m.from
    IN  IF TypeAt(b, m.from) # "p" THEN b1
        ELSE IF diff = 16 /\ RankOf(m.from) = 1 THEN [b1 EXCEPT !.ep = {m.from + 8}]
        ELSE IF diff = 0 - 16 /\ RankOf(m.from) = 6 THEN [b1 EXCEPT !.ep = {m.from - 8}]
        ELSE IF m.to \in b.ep /\ Abs(diff) \in {7, 9} /\ TypeAt(b, m.to) = NoType
        THEN LET down == IF b.turn = WHITE THEN 0 - 8 ELSE 8
             IN  IF m.to + down \in Squares THEN RemovePieceAt(b1, m.to + down) ELSE b1
        ELSE b1

\* Board.push, putting the piece (or the castled king and rook) on the board
PushPlace(b, m, b2) ==
    LET type == IF m.promotion # NoType THEN m.promotion ELSE TypeAt(b, m.from)
        promoted == m.promotion # NoType \/ m.from \in b.promoted
        castling == type = "k" /\ OwnAt(b2, m.to, b.turn)
        aSide == FileOf(m.to) < FileOf(m.from)
        cleared == RemovePieceAt(RemovePieceAt(b2, m.from), m.to)
    IN  IF castling
        THEN IF aSide
             THEN SetPieceAt(SetPieceAt(cleared, IF b.turn = WHITE THEN C1 ELSE C8, "k", b.turn, FALSE),
                             IF b.turn = WHITE THEN D1 ELSE D8, "r", b.turn, FALSE)
             ELSE SetPieceAt(SetPieceAt(cleared, IF b.turn = WHITE THEN G1 ELSE G8, "k", b.turn, FALSE),
                             IF b.turn = WHITE THEN F1 ELSE F8, "r", b.turn, FALSE)
        ELSE SetPieceAt(b2, m.to, type, b.turn, promoted)

\* Board.push(move): the move is not checked for legality; a move from an empty
\* square fails push's assertion and leaves the board as PushBegin made it
Push(b, move) ==
    LET m == ToChess960(b, move)
        b1 == PushBegin(b, m)
    IN  IF ~MoveBool(m)
        THEN [ok |-> TRUE, board |-> [b1 EXCEPT !.pcs = b.pcs, !.promoted = b.promoted,
                                                !.turn = ~b.turn]]
        ELSE IF TypeAt(b, m.from) = NoType
        THEN [ok |-> FALSE, board |-> b1]
        ELSE LET b2 == PushPawn(b, m, [b1 EXCEPT !.castling = PushCastlingRights(b, m, b1)])
             IN  [ok |-> TRUE, board |-> [PushPlace(b, m, b2) EXCEPT !.turn = ~b.turn]]
(***************************************************************************)
(* chess library: attacks, pseudo-legal and legal moves, Board.fen(), as   *)
(* utils/moveFromFens.py and the connectors use them                       *)
(***************************************************************************)
Sign(x) == IF x > 0 THEN 1 ELSE IF x < 0 THEN 0 - 1 ELSE 0

\* chess.between(a, b): the squares strictly between two squares of one rank,
\* file or diagonal
Between(a, b) ==
    LET df == FileOf(b) - FileOf(a)
        dr == RankOf(b) - RankOf(a)
        n == Max(Abs(df), Abs(dr))
    IN  IF a = b \/ ~(df = 0 \/ dr = 0 \/ Abs(df) = Abs(dr)) THEN {}
        ELSE {SquareAt(FileOf(a) + k * Sign(df), RankOf(a) + k * Sign(dr)) : k \in 1..(n - 1)}

Occupied(b) == {sq \in Squares : TypeAt(b, sq) # NoType}

\* Board.attacks_mask(from) holds the square: what the piece on a square
\* attacks, the sliding pieces seeing the given occupancy
Attacks(b, occupied, from, to) ==
    LET t == TypeAt(b, from)
        df == Abs(FileOf(to) - FileOf(from))
        dr == Abs(RankOf(to) - RankOf(from))
        up == IF PieceAt(b, from).c = WHITE THEN 1 ELSE 0 - 1
        clear == Between(from, to) \cap occupied = {}
    IN  /\ from # to
        /\ CASE t = "p" -> df = 1 /\ RankOf(to) - RankOf(from) = up
             [] t = "n" -> {df, dr} = {1, 2}
             [] t = "k" -> df <= 1 /\ dr <= 1
             [] t = "b" -> df = dr /\ clear
             [] t = "r" -> (df = 0 \/ dr = 0) /\ clear
             [] t = "q" -> (df = dr \/ df = 0 \/ dr = 0) /\ clear
             [] OTHER -> FALSE

\* Board._attackers_mask(color, square, occupied) is not empty
IsAttackedBy(b, color, sq, occupied) ==
    \E from \in Squares : OwnAt(b, from, color) /\ Attacks(b, occupied, from, sq)

\* Board._from_chess960 of a standard board: the king taking its own rook is
\* written as the king's two-square move
FromChess960(b, m) ==
    IF m.promotion # NoType THEN m
    ELSE IF m.from = E1 /\ TypeAt(b, E1) = "k"
    THEN IF m.to = H1 THEN Move(E1, G1, NoType)
         ELSE IF m.to = A1 THEN Move(E1, C1, NoType)
         ELSE m
    ELSE IF m.from = E8 /\ TypeAt(b, E8) = "k"
    THEN IF m.to = H8 THEN Move(E8, G8, NoType)
         ELSE IF m.to = A8 THEN Move(E8, C8, NoType)
         ELSE m
    ELSE m

\* Board.generate_castling_moves
CastlingMoves(b) ==
    LET rank == IF b.turn = WHITE THEN 0 ELSE 7
        kings == {sq \in RankSquares(rank) :
                    OwnAt(b, sq, b.turn) /\ TypeAt(b, sq) = "k" /\ sq \notin b.promoted}
        occ == Occupied(b)
        Free(king, rook) ==
            LET aSide == rook < king
                kingTo == SquareAt(IF aSide THEN 2 ELSE 6, rank)
                rookTo == SquareAt(IF aSide THEN 3 ELSE 5, rank)
                path == Between(king, kingTo) \cup Between(rook, rookTo) \cup {kingTo, rookTo}
            IN  /\ (occ \ {king, rook}) \cap path = {}
                /\ \A sq \in Between(king, kingTo) \cup {king} :
                        ~IsAttackedBy(b, ~b.turn, sq, occ \ {king})
                /\ ~IsAttackedBy(b, ~b.turn, kingTo, (occ \ {king, rook}) \cup {rookTo})
    IN  IF kings = {} THEN {}
        ELSE LET king == CHOOSE k \in kings : \A o \in kings : k <= o
             IN  {FromChess960(b, Move(king, rook, NoType)) :
                    rook \in {r \in CleanCastlingRights(b) \cap RankSquares(rank) : Free(king, r)}}

\* Board.generate_pseudo_legal_ep
EnPassantMoves(b) ==
    {Move(from, to, NoType) : <<from, to>> \in
        {s \in Squares \X b.ep :
            /\ TypeAt(b, s[2]) = NoType
            /\ OwnAt(b, s[1], b.turn) /\ TypeAt(b, s[1]) = "p"
            /\ Attacks(b, {}, s[1], s[2])
            /\ RankOf(s[1]) = (IF b.turn = WHITE THEN 4 ELSE 3)}}

\* Board.generate_pseudo_legal_moves, the pawns: captures, single and double
\* steps (each a promotion when it ends on the last rank), en passant
PawnMoves(b) ==
    LET up == IF b.turn = WHITE THEN 8 ELSE 0 - 8
        last == IF b.turn = WHITE THEN 7 ELSE 0
        doubled == IF b.turn = WHITE THEN {2, 3} ELSE {5, 4}
        occ == Occupied(b)
        pawns == {sq \in Squares : OwnAt(b, sq, b.turn) /\ TypeAt(b, sq) = "p"}
        captures == {s \in pawns \X Squares :
                        Attacks(b, occ, s[1], s[2]) /\ OwnAt(b, s[2], ~b.turn)}
        singles == {s \in pawns \X Squares : s[2] = s[1] + up /\ s[2] \notin occ}
        doubles == {s \in pawns \X Squares :
                        /\ s[2] = s[1] + 2 * up
                        /\ s[1] + up \notin occ /\ s[2] \notin occ
                        /\ RankOf(s[1] + up) \in doubled /\ RankOf(s[2]) \in doubled}
        steps == captures \cup singles \cup doubles
    IN  {Move(s[1], s[2], NoType) : s \in {x \in steps : RankOf(x[2]) # last}}
        \cup {Move(s[1], s[2], promotion) :
                s \in {x \in steps : RankOf(x[2]) = last}, promotion \in {"q", "r", "b", "n"}}
        \cup EnPassantMoves(b)

\* Board.generate_pseudo_legal_moves: what board.pseudo_legal_moves yields
PseudoLegalMoves(b) ==
    LET occ == Occupied(b)
        pieces == {s \in Squares \X Squares :
                      /\ OwnAt(b, s[1], b.turn) /\ TypeAt(b, s[1]) # "p"
                      /\ ~OwnAt(b, s[2], b.turn)
                      /\ Attacks(b, occ, s[1], s[2])}
    IN  {Move(s[1], s[2], NoType) : s \in pieces} \cup CastlingMoves(b) \cup PawnMoves(b)

\* Board.is_pseudo_legal(move), which is `move in board.pseudo_legal_moves`
IsPseudoLegal(b, m) ==
    LET piece == TypeAt(b, m.from)
        last == IF b.turn = WHITE THEN 7 ELSE 0
    IN  IF ~MoveBool(m) THEN FALSE
        ELSE IF piece = NoType THEN FALSE
        ELSE IF ~OwnAt(b, m.from, b.turn) THEN FALSE
        ELSE IF m.promotion # NoType /\ (piece # "p" \/ RankOf(m.to) # last) THEN FALSE
        ELSE IF piece = "k" /\ FromChess960(b, Move(m.from, m.to, NoType)) \in CastlingMoves(b)
        THEN TRUE
        ELSE IF OwnAt(b, m.to, b.turn) THEN FALSE
        ELSE IF piece = "p" THEN m \in PawnMoves(b)
        ELSE Attacks(b, Occupied(b), m.from, m.to)

\* a king of the colour is attacked
KingAttacked(b, color) ==
    \E king \in Squares :
        /\ OwnAt(b, king, color) /\ TypeAt(b, king) = "k"
        /\ IsAttackedBy(b, ~color, king, Occupied(b))

\* Board.is_into_check(move): the move leaves the mover's king attacked
IsIntoCheck(b, m) == KingAttacked(Push(b, m).board, b.turn)

\* Board.generate_legal_moves: what board.legal_moves yields
LegalMoves(b) == {m \in PseudoLegalMoves(b) : ~IsIntoCheck(b, m)}

\* the decimal digits of a counter, as str() writes them
RECURSIVE Digits(_)
Digits(n) ==
    IF n < 10 THEN <<FenNumbers[n + 1]>>
    ELSE Append(Digits(n \div 10), FenNumbers[(n % 10) + 1])

\* Board.castling_xfen() of a standard board, as the set of its letters
CastlingXfen(b) ==
    LET King(color) == {sq \in Squares : OwnAt(b, sq, color) /\ TypeAt(b, sq) = "k"
                                          /\ sq \notin b.promoted}
        Letters(color, rank, kside, qside) ==
            IF King(color) = {} THEN {}
            ELSE LET king == CHOOSE k \in King(color) : \A o \in King(color) : k >= o
                 IN  {IF FileOf(rook) < FileOf(king) THEN qside ELSE kside :
                        rook \in CleanCastlingRights(b) \cap RankSquares(rank)}
    IN  Letters(WHITE, 0, "K", "Q") \cup Letters(BLACK, 7, "k", "q")

\* Board.fen(): the placement, the side to move, the castling field, and the
\* characters of the rest "<ep> <halfmove> <fullmove>", the en-passant square
\* being written only when an en-passant capture is legal
Fen(b) ==
    LET legalEp == \E m \in EnPassantMoves(b) : ~IsIntoCheck(b, m)
        ep == IF legalEp
              THEN LET sq == CHOOSE s \in b.ep : TRUE
                   IN  <<FILE_NAMES[FileOf(sq) + 1], RANK_NAMES[RankOf(sq) + 1]>>
              ELSE <<"-">>
    IN  [placement |-> b.pcs, turn |-> b.turn, castling |-> CastlingXfen(b),
         rest |-> ep \o <<" ">> \o Digits(b.hm) \o <<" ">> \o Digits(b.fm)]

(***************************************************************************)
(* utils/moveFromFens.py                                                   *)
(***************************************************************************)
\* what moveFromFens gives: a move, or the exception it raises
Returned(move) == [kind |-> "move", move |-> move]
Failure(kind) == [kind |-> kind, move |-> NullMove]

\* a variant that lists the differing squares from h8 down to a1;
\* C22_QueensideCastleAsKingToRook tells it from the code's
DifferencesDescending(before, after) ==
    LET D == {sq \in Squares : PieceAt(before, sq) # PieceAt(after, sq)}
    IN  [i \in 1..Cardinality(D) |->
            CHOOSE sq \in D : Cardinality({o \in D : o > sq}) = i - 1]

\* lines 11-15: the squares whose piece differs, from a1 up to h8
Differences(before, after) ==
    LET D == {sq \in Squares : PieceAt(before, sq) # PieceAt(after, sq)}
    IN  [i \in 1..Cardinality(D) |->
            CHOOSE sq \in D : Cardinality({o \in D : o < sq}) = i - 1]

\* a variant without the bound on the differences; C23_TooManyDifferences
\* tells it from the code's
TooManyDifferencesNever(differences) == FALSE

\* line 17
TooManyDifferences(differences) == Len(differences) > 4

\* lines 20-44: every ordered pair of differing squares, then, for each piece
\* type after the pawn, the promotions between the first two differing squares
PossibleMoves(before, differences) ==
    LET n == Len(differences)
        pairs == [k \in 1..(n * (n - 1)) |->
                    LET i == ((k - 1) \div (n - 1)) + 1
                        c == ((k - 1) % (n - 1)) + 1
                        j == IF c < i THEN c ELSE c + 1
                    IN  Move(differences[i], differences[j], NoType)]
        Promoting(symbol) ==
            (IF TypeAt(before, differences[1]) # NoType
             THEN <<Move(differences[1], differences[2], symbol)>> ELSE <<>>)
            \o (IF TypeAt(before, differences[2]) # NoType
                THEN <<Move(differences[2], differences[1], symbol)>> ELSE <<>>)
    IN  pairs \o Promoting(PIECE_SYMBOLS[2]) \o Promoting(PIECE_SYMBOLS[3])
              \o Promoting(PIECE_SYMBOLS[4]) \o Promoting(PIECE_SYMBOLS[5])
              \o Promoting(PIECE_SYMBOLS[6])

\* board.fen()[:-5]: the FEN without its last five characters
FenCut(b) == [Fen(b) EXCEPT !.rest = SubSeq(@, 1, Len(@) - 5)]

\* moveFromFens(before, after): raising a str at line 18 is a TypeError,
\* differences[0] and differences[1] at lines 39-43 are an IndexError when fewer
\* than two squares differ, line 60 raises Exception("no valid move found")
FirstMatch(possibleMoves, hits) ==
    IF hits = {} THEN Failure("Exception")
    ELSE Returned(possibleMoves[CHOOSE k \in hits : \A o \in hits : k <= o])
\* a variant that tries the possible moves without asking whether they are
\* pseudo-legal; C34_InferenceSound tells it from the code's
TryMovesUnfiltered(before, after, possibleMoves) ==
    FirstMatch(possibleMoves,
               {k \in 1..Len(possibleMoves) :
                    FenCut(Push(before, possibleMoves[k]).board) = FenCut(after)})
\* lines 47-55: the first possible move that is pseudo-legal and whose board
\* has the cut FEN of `after`
TryMoves(before, after, possibleMoves) ==
    FirstMatch(possibleMoves,
               {k \in 1..Len(possibleMoves) :
                    /\ IsPseudoLegal(before, possibleMoves[k])
                    /\ FenCut(Push(before, possibleMoves[k]).board) = FenCut(after)})
MoveFromFens(before, after) ==
    LET differences == Differences(before, after)
    IN  IF TooManyDifferences(differences) THEN Failure("TypeError")
        ELSE IF Len(differences) < 2 THEN Failure("IndexError")
        ELSE TryMoves(before, after, PossibleMoves(before, differences))

(***************************************************************************)
(* state.py: GameState; uci_handler.py: UCIHandler                         *)
(***************************************************************************)
GameState ==
    {"INITIALIZING", "GAME_READY", "CONFIGURING", "COMPUTING", "PONDERING",
     "OBSERVING", "ERROR", "TERMINATING"}

VALID_COMMANDS ==
    [s \in GameState |->
        CASE s = "INITIALIZING" -> {}
          [] s = "GAME_READY" -> {"uci", "isready", "ucinewgame", "position", "setoption", "quit"}
          [] s = "CONFIGURING" -> {"isready", "stop"}
          [] s = "COMPUTING" -> {"stop", "isready", "go", "quit"}
          [] s = "PONDERING" -> {"ponderhit", "stop", "isready", "quit"}
          [] s = "OBSERVING" -> {"position", "isready", "stop", "go", "quit"}
          [] s = "ERROR" -> {"isready", "quit"}
          [] s = "TERMINATING" -> {}]

\* the keys of UCIHandler._command_handlers
CommandHandlers ==
    {"uci", "isready", "ucinewgame", "position", "go", "stop", "ponderhit",
     "setoption", "quit"}

\* str.lower() on the command tokens of this model's input
LOWERED == [QUIT |-> "quit"]
Lower(tok) == IF tok \in DOMAIN LOWERED THEN LOWERED[tok] ELSE tok

\* ' '.join(tokens)
RECURSIVE Join(_)
Join(toks) ==
    IF Len(toks) = 0 THEN ""
    ELSE IF Len(toks) = 1 THEN toks[1]
    ELSE toks[1] \o " " \o Join(Tail(toks))

\* list.index-like scan of "for i, arg in enumerate(args): if arg == word: break":
\* the 0-based index of the first occurrence of word, 0 when there is none (the
\* code's None; both are falsy in "if idx:")
FirstIndex(args, word) ==
    IF \E i \in 1..Len(args) : args[i] = word
    THEN (CHOOSE i \in 1..Len(args) : args[i] = word /\ \A j \in 1..(i - 1) : args[j] # word) - 1
    ELSE 0

(***************************************************************************)
(* What one step of the dispatcher did, in order: the phase transitions    *)
(* (_transition_to), the calls on the GameConnector with their results,    *)
(* the lines written (_output) and the exceptions raised.                  *)
(***************************************************************************)
Ev(ev, a, r, x) == [ev |-> ev, a |-> a, r |-> r, x |-> x]
Transition(phase) == Ev("transition", phase, "", "")
Called(name, result) == Ev("call", name, result, "")
Output(text) == Ev("output", text, "", "")
Raised(name) == Ev("raise", name, "", "")

\* the handler's fields during a step: h.raised says an exception is propagating
TransitionTo(h, phase) == [h EXCEPT !.state = phase, !.log = Append(@, Transition(phase))]
Emit(h, text) == [h EXCEPT !.log = Append(@, Output(text))]
Call(h, name, result) ==
    IF result = "raise"
    THEN [h EXCEPT !.log = Append(Append(@, Called(name, result)), Raised(name)), !.raised = TRUE]
    ELSE [h EXCEPT !.log = Append(@, Called(name, result))]
CallWith(h, name, arg, result) ==
    IF result = "raise"
    THEN [h EXCEPT !.log = Append(Append(@, Ev("call", name, result, arg)), Raised(name)),
                   !.raised = TRUE]
    ELSE [h EXCEPT !.log = Append(@, Ev("call", name, result, arg))]
Throw(h, what) == [h EXCEPT !.log = Append(@, Raised(what)), !.raised = TRUE]

\* a variant of _initialize that leaves the phase alone when initialize() did
\* not return True; C35_TransientPhases tells it from the code's
InitializeStaysOnFailure(h, result) ==
    LET h1 == [h EXCEPT !.log = Append(@, Called("initialize", result))]
    IN  IF result = "true" THEN TransitionTo(h1, "GAME_READY")
        ELSE h1

\* UCIHandler._initialize: an exception of initialize() is caught here and does
\* not propagate
Initialize(h, result) ==
    LET h1 == [h EXCEPT !.log = Append(@, Called("initialize", result))]
    IN  IF result = "true" THEN TransitionTo(h1, "GAME_READY")
        ELSE TransitionTo(h1, "ERROR")

\* UCIHandler._handle_uci; env.options is what get_options() returns, a sequence
\* of [name, def] in the dictionary's order, def holding the keys the option has
OptionString(opt) ==
    "option name " \o opt.name
        \o (IF "type" \in DOMAIN opt.def THEN " type " \o opt.def.type ELSE "")
        \o (IF "default" \in DOMAIN opt.def THEN " default " \o opt.def.default ELSE "")
        \o (IF "min" \in DOMAIN opt.def THEN " min " \o opt.def.min ELSE "")
        \o (IF "max" \in DOMAIN opt.def THEN " max " \o opt.def.max ELSE "")

RECURSIVE EmitOptions(_, _)
EmitOptions(h, opts) ==
    IF Len(opts) = 0 THEN h
    ELSE EmitOptions(Emit(h, OptionString(Head(opts))), Tail(opts))

ConnectorName == "Grandmaster Chess"
ConnectorAuthor == "Accent-Chess"

\* the names of the options get_options() returned, as logged with the call
RECURSIVE OptionNames(_)
OptionNames(opts) ==
    IF Len(opts) = 0 THEN ""
    ELSE Head(opts).name \o ";" \o OptionNames(Tail(opts))

\* a variant of uci that writes uciok before the option lines;
\* C20_UciAnsweredOnceInitialized tells it from the code's
HandleUciOkFirst(h, args, env) ==
    LET h1 == Emit(Emit(h, "id name " \o ConnectorName), "id author " \o ConnectorAuthor)
        h2 == CallWith(h1, "get_options", OptionNames(env.options), env.get_options)
    IN  IF h2.raised THEN h2
        ELSE EmitOptions(Emit(h2, "uciok"), env.options)

HandleUci(h, args, env) ==
    LET h1 == Emit(Emit(h, "id name " \o ConnectorName), "id author " \o ConnectorAuthor)
        h2 == CallWith(h1, "get_options", OptionNames(env.options), env.get_options)
    IN  IF h2.raised THEN h2
        ELSE Emit(EmitOptions(h2, env.options), "uciok")

\* a variant of the probe that leaves the phase alone when the re-initialisation
\* fails; C6_IsreadyReportsReadiness tells it from the code's
IsreadyProbeKeepsPhase(h, env) ==
    LET h1 == Call(h, "is_emulator_ready", env.is_emulator_ready)
        h2 == Call(h1, "initialize", env.initialize2)
    IN  IF h1.raised THEN h1
        ELSE IF env.is_emulator_ready = "true" THEN Emit(h1, "readyok")
        ELSE IF h2.raised THEN h2
        ELSE IF env.initialize2 = "true" THEN Emit(TransitionTo(h2, "GAME_READY"), "readyok")
        ELSE h2

\* UCIHandler._handle_isready, lines 245-254: the readiness probe and the
\* re-initialisation
IsreadyProbe(h, env) ==
    LET h1 == Call(h, "is_emulator_ready", env.is_emulator_ready)
        h2 == Call(h1, "initialize", env.initialize2)
    IN  IF h1.raised THEN h1
        ELSE IF env.is_emulator_ready = "true" THEN Emit(h1, "readyok")
        ELSE IF h2.raised THEN h2
        ELSE IF env.initialize2 = "true" THEN Emit(TransitionTo(h2, "GAME_READY"), "readyok")
        ELSE TransitionTo(h2, "ERROR")

\* UCIHandler._handle_isready
HandleIsready(h, args, env) ==
    IF h.state = "ERROR"
    THEN LET h1 == Call(h, "attempt_recovery", env.attempt_recovery)
         IN  IF h1.raised THEN h1
             ELSE IF env.attempt_recovery = "true"
             THEN IsreadyProbe(Initialize(TransitionTo(h1, "INITIALIZING"), env.initialize), env)
             ELSE IsreadyProbe(h1, env)
    ELSE IsreadyProbe(h, env)

\* a variant of ucinewgame that resets the position before it knows whether
\* setup_new_game() succeeded; C7_UcinewgameResets tells it from the code's
HandleUcinewgameResetsFirst(h, args, env) ==
    LET h0 == [h EXCEPT !.position = StartingBoard]
        h1 == Call(TransitionTo(h0, "CONFIGURING"), "setup_new_game", env.setup_new_game)
        h2 == Call(h1, "engine_color", env.engine_color)
    IN  IF h1.raised THEN h1
        ELSE IF env.setup_new_game = "true"
        THEN IF env.engine_color = "white" THEN TransitionTo(h2, "COMPUTING")
             ELSE TransitionTo(h2, "OBSERVING")
        ELSE TransitionTo(h1, "ERROR")

\* UCIHandler._handle_ucinewgame
HandleUcinewgame(h, args, env) ==
    LET h1 == Call(TransitionTo(h, "CONFIGURING"), "setup_new_game", env.setup_new_game)
        h2 == Call([h1 EXCEPT !.position = StartingBoard], "engine_color", env.engine_color)
    IN  IF h1.raised THEN h1
        ELSE IF env.setup_new_game = "true"
        THEN IF env.engine_color = "white" THEN TransitionTo(h2, "COMPUTING")
             ELSE TransitionTo(h2, "OBSERVING")
        ELSE TransitionTo(h1, "ERROR")

\* UCIHandler._handle_position, lines 306-313: "for move_str in args[1:]" with
\* Move.from_uci and push; "invalid" is the caught ValueError of from_uci,
\* "raise" the assertion of push, which is no ValueError
RECURSIVE ApplyMoves(_, _)
ApplyMoves(b, toks) ==
    IF Len(toks) = 0 THEN [status |-> "ok", board |-> b]
    ELSE LET parsed == FromUci(Head(toks))
             pushed == Push(b, parsed.move)
         IN  IF ~parsed.ok THEN [status |-> "invalid", board |-> b]
             ELSE IF ~pushed.ok THEN [status |-> "raise", board |-> pushed.board]
             ELSE ApplyMoves(pushed.board, Tail(toks))

\* the moves are pushed on self._position itself, one after the other
PositionMoves(h, args) ==
    IF Len(args) > 0 /\ args[1] = "moves"
    THEN LET r == ApplyMoves(h.position, Tail(args))
         IN  IF r.status = "raise"
             THEN Throw([h EXCEPT !.position = r.board], "push")
             ELSE [h EXCEPT !.position = r.board]
    ELSE h

\* a variant of position that replays the moves on the position it already
\* holds and never takes the base position; C12_PositionReplaysMoves tells it
\* from the code's
HandlePositionOnCurrent(h, args, env) ==
    IF Len(args) = 0 THEN h
    ELSE IF args[1] = "startpos" THEN PositionMoves(h, Tail(args))
    ELSE IF args[1] = "fen"
    THEN LET idx == FirstIndex(args, "moves")
             fenParts == IF idx # 0 THEN SubSeq(args, 2, idx) ELSE Tail(args)
             rest == IF idx # 0 THEN SubSeq(args, idx + 1, Len(args)) ELSE <<>>
         IN  IF ~ParseFen(fenParts).ok THEN Throw(h, "Board")
             ELSE PositionMoves(h, rest)
    ELSE h

\* UCIHandler._handle_position
HandlePosition(h, args, env) ==
    IF Len(args) = 0 THEN h
    ELSE IF args[1] = "startpos"
    THEN PositionMoves([h EXCEPT !.position = StartingBoard], Tail(args))
    ELSE IF args[1] = "fen"
    THEN LET idx == FirstIndex(args, "moves")
             fenParts == IF idx # 0 THEN SubSeq(args, 2, idx) ELSE Tail(args)
             rest == IF idx # 0 THEN SubSeq(args, idx + 1, Len(args)) ELSE <<>>
             parsed == ParseFen(fenParts)
         IN  IF ~parsed.ok THEN Throw(h, "Board")
             ELSE PositionMoves([h EXCEPT !.position = parsed.board], rest)
    ELSE h

\* what a connector call that returns Optional[Move] gave, as logged
MoveResult(kind, move) ==
    IF kind = "move" THEN MoveUci(move) ELSE kind

\* a variant of the bestmove branch that does not push the move on the
\* position; C8_GoPlaysBestmove tells it from the code's
GoBestMoveWithoutPush(h, ponder, env) ==
    LET h1 == IF ponder
              THEN Call(h, "supports_pondering", env.supports_pondering)
              ELSE h
    IN  IF h1.raised THEN h1
        ELSE TransitionTo(Emit(h1, "bestmove " \o MoveUci(env.move)), "OBSERVING")

\* a variant of the bestmove branch that starts pondering after a "go ponder"
\* without asking supports_pondering(); C18_NeverPondering tells it from the
\* code's
GoBestMoveThenPonders(h, ponder, env) ==
    LET h2 == Emit(h, "bestmove " \o MoveUci(env.move))
        pushed == Push(h2.position, env.move)
    IN  IF ~pushed.ok THEN Throw([h2 EXCEPT !.position = pushed.board], "push")
        ELSE TransitionTo([h2 EXCEPT !.position = pushed.board],
                          IF ponder THEN "PONDERING" ELSE "OBSERVING")

\* a variant of the bestmove branch that writes its line twice;
\* C39_BestmovePerGo tells it from the code's
GoBestMoveTwice(h, ponder, env) ==
    LET h1 == IF ponder
              THEN Call(h, "supports_pondering", env.supports_pondering)
              ELSE h
        h2 == Emit(Emit(h1, "bestmove " \o MoveUci(env.move)), "bestmove " \o MoveUci(env.move))
        pushed == Push(h2.position, env.move)
    IN  IF h1.raised THEN h1
        ELSE IF ~pushed.ok THEN Throw([h2 EXCEPT !.position = pushed.board], "push")
        ELSE TransitionTo([h2 EXCEPT !.position = pushed.board], "OBSERVING")

\* UCIHandler._handle_go, lines 343-358: the own-move wait gave a (truthy) move
GoBestMove(h, ponder, env) ==
    LET h1 == IF ponder
              THEN Call(h, "supports_pondering", env.supports_pondering)
              ELSE h
        h2 == Emit(h1, "bestmove " \o MoveUci(env.move))
        pushed == Push(h2.position, env.move)
    IN  IF h1.raised THEN h1
        ELSE IF ~pushed.ok THEN Throw([h2 EXCEPT !.position = pushed.board], "push")
        ELSE TransitionTo([h2 EXCEPT !.position = pushed.board], "OBSERVING")

\* a variant of the no-move branch that stays in COMPUTING;
\* C9_GoWithoutMove tells it from the code's
GoNoMoveStaysComputing(h) == h

\* UCIHandler._handle_go, lines 359-362: no move
GoNoMove(h) ==
    IF h.state = "COMPUTING" THEN TransitionTo(h, "OBSERVING") ELSE h

\* a variant of go that waits for the move whatever setup_position() returned;
\* C28_GoSetupFailure tells it from the code's
HandleGoIgnoresSetup(h, args, env) ==
    LET ponder == \E i \in 1..Len(args) : args[i] = "ponder"
        h1 == Call(TransitionTo(h, "COMPUTING"), "setup_position", env.setup_position)
        h2 == Call(h1, "wait_for_engine_move", MoveResult(env.wait, env.move))
    IN  IF h1.raised THEN h1
        ELSE IF h2.raised THEN h2
        ELSE IF env.wait = "move" /\ MoveBool(env.move) THEN GoBestMove(h2, ponder, env)
        ELSE GoNoMove(h2)

\* UCIHandler._handle_go
HandleGo(h, args, env) ==
    LET ponder == \E i \in 1..Len(args) : args[i] = "ponder"
        h1 == Call(TransitionTo(h, "COMPUTING"), "setup_position", env.setup_position)
        h2 == Call(h1, "wait_for_engine_move", MoveResult(env.wait, env.move))
    IN  IF h1.raised THEN h1
        ELSE IF env.setup_position # "true" THEN TransitionTo(h1, "ERROR")
        ELSE IF h2.raised THEN h2
        ELSE IF env.wait = "move" /\ MoveBool(env.move) THEN GoBestMove(h2, ponder, env)
        ELSE GoNoMove(h2)

\* a variant of stop that leaves COMPUTING only when stop_calculation()
\* returned True; C14_StopByPhase tells it from the code's
HandleStopWhenStopped(h, args, env) ==
    IF h.state = "COMPUTING"
    THEN LET h1 == Call(h, "stop_calculation", env.stop_calculation)
         IN  IF h1.raised THEN h1
             ELSE IF env.stop_calculation = "true" THEN TransitionTo(h1, "OBSERVING")
             ELSE h1
    ELSE IF h.state = "PONDERING"
    THEN LET h1 == Call(h, "stop_pondering", MoveResult(env.stop_pondering, env.move))
         IN  IF h1.raised THEN h1
             ELSE IF env.stop_pondering = "move" /\ MoveBool(env.move)
             THEN TransitionTo(Emit(h1, "bestmove " \o MoveUci(env.move)), "OBSERVING")
             ELSE TransitionTo(h1, "OBSERVING")
    ELSE IF h.state = "CONFIGURING" THEN TransitionTo(h, "GAME_READY")
    ELSE h

\* a variant of stop that plays the move of stop_pondering() on the position;
\* C38_PositionFrame tells it from the code's
HandleStopPushes(h, args, env) ==
    IF h.state = "COMPUTING"
    THEN LET h1 == Call(h, "stop_calculation", env.stop_calculation)
         IN  IF h1.raised THEN h1 ELSE TransitionTo(h1, "OBSERVING")
    ELSE IF h.state = "PONDERING"
    THEN LET h1 == Call(h, "stop_pondering", MoveResult(env.stop_pondering, env.move))
             h2 == Emit(h1, "bestmove " \o MoveUci(env.move))
         IN  IF h1.raised THEN h1
             ELSE IF env.stop_pondering = "move" /\ MoveBool(env.move)
             THEN TransitionTo([h2 EXCEPT !.position = Push(@, env.move).board], "OBSERVING")
             ELSE TransitionTo(h1, "OBSERVING")
    ELSE IF h.state = "CONFIGURING" THEN TransitionTo(h, "GAME_READY")
    ELSE h

\* UCIHandler._handle_stop
HandleStop(h, args, env) ==
    IF h.state = "COMPUTING"
    THEN LET h1 == Call(h, "stop_calculation", env.stop_calculation)
         IN  IF h1.raised THEN h1 ELSE TransitionTo(h1, "OBSERVING")
    ELSE IF h.state = "PONDERING"
    THEN LET h1 == Call(h, "stop_pondering", MoveResult(env.stop_pondering, env.move))
         IN  IF h1.raised THEN h1
             ELSE IF env.stop_pondering = "move" /\ MoveBool(env.move)
             THEN TransitionTo(Emit(h1, "bestmove " \o MoveUci(env.move)), "OBSERVING")
             ELSE TransitionTo(h1, "OBSERVING")
    ELSE IF h.state = "CONFIGURING" THEN TransitionTo(h, "GAME_READY")
    ELSE h

\* a variant of ponderhit that moves to COMPUTING from every phase;
\* C17_PonderhitOnlyInPondering tells it from the code's
HandlePonderhitAnywhere(h, args, env) == TransitionTo(h, "COMPUTING")

\* UCIHandler._handle_ponderhit
HandlePonderhit(h, args, env) ==
    IF h.state = "PONDERING" THEN TransitionTo(h, "COMPUTING") ELSE h

\* a variant of setoption for which a rejected option is an error;
\* C19_SetoptionForwards tells it from the code's
HandleSetoptionRejectFatal(h, args, env) ==
    IF Len(args) < 2 \/ args[1] # "name" THEN h
    ELSE LET idx == FirstIndex(args, "value")
             name == IF idx # 0 THEN Join(SubSeq(args, 2, idx)) ELSE Join(Tail(args))
             value == IF idx # 0 THEN Join(SubSeq(args, idx + 2, Len(args))) ELSE ""
             h1 == CallWith(h, "set_option", name \o "=" \o value, env.set_option)
         IN  IF env.set_option = "false" THEN TransitionTo(h1, "ERROR") ELSE h1

\* UCIHandler._handle_setoption; the call is logged with "name=value"
HandleSetoption(h, args, env) ==
    IF Len(args) < 2 \/ args[1] # "name" THEN h
    ELSE LET idx == FirstIndex(args, "value")
             name == IF idx # 0 THEN Join(SubSeq(args, 2, idx)) ELSE Join(Tail(args))
             value == IF idx # 0 THEN Join(SubSeq(args, idx + 2, Len(args))) ELSE ""
         IN  CallWith(h, "set_option", name \o "=" \o value, env.set_option)

\* UCIHandler._handle_quit: _running is cleared after shutdown() has returned
HandleQuit(h, args, env) ==
    LET h1 == Call(TransitionTo(h, "TERMINATING"), "shutdown", env.shutdown)
    IN  IF h1.raised THEN h1 ELSE [h1 EXCEPT !.running = FALSE]

\* self._command_handlers[command](args)
Handler(command, h, args, env) ==
    CASE command = "uci" -> HandleUci(h, args, env)
      [] command = "isready" -> HandleIsready(h, args, env)
      [] command = "ucinewgame" -> HandleUcinewgame(h, args, env)
      [] command = "position" -> HandlePosition(h, args, env)
      [] command = "go" -> HandleGo(h, args, env)
      [] command = "stop" -> HandleStop(h, args, env)
      [] command = "ponderhit" -> HandlePonderhit(h, args, env)
      [] command = "setoption" -> HandleSetoption(h, args, env)
      [] command = "quit" -> HandleQuit(h, args, env)

\* UCIHandler._process_command, lines 188-200: a command that is not valid in
\* the current state is dropped in INITIALIZING and TERMINATING only
Dropped(h, command) ==
    command \notin VALID_COMMANDS[h.state] /\ h.state \in {"INITIALIZING", "TERMINATING"}

\* a variant of the exception handler that swallows the exception without
\* forcing ERROR; C3_HandlerErrorKeepsSession tells it from the code's
GuardedKeepsPhase(h) == [h EXCEPT !.raised = FALSE]

\* UCIHandler._process_command, lines 205-209: an exception of the handler
\* forces ERROR
Guarded(h) ==
    IF h.raised THEN TransitionTo([h EXCEPT !.raised = FALSE], "ERROR") ELSE h

\* UCIHandler._process_command on the tokens of a line (line.split())
ProcessCommand(h, parts, env) ==
    IF Len(parts) = 0 THEN h
    ELSE LET command == Lower(parts[1])
             args == Tail(parts)
         IN  IF Dropped(h, command) THEN h
             ELSE IF command \in CommandHandlers THEN Guarded(Handler(command, h, args, env))
             ELSE h
(***************************************************************************)
(* The session: UCIHandler.run() reading lines from the input stream       *)
(***************************************************************************)
VARIABLES
    state,      \* UCIHandler._state
    position,   \* UCIHandler._position
    running,    \* UCIHandler._running
    pc,         \* where run() is: "new" (constructed), "loop", "done", "crashed"
    line,       \* the tokens of the input line the last step processed
    log,        \* what the last step did (transitions, calls, output, exceptions)
    shutdowns,  \* how many times connector.shutdown() has been called
    inbox,      \* the lines written to the input stream and not read yet
    wait,       \* the locals of the wait_for_engine_move() in progress
    infer,      \* a call of moveFromFens: its arguments and what it gave
    conn,       \* a connector object: its fields and the backend's resources
    scr         \* a connector in front of the emulator's screen

vars == <<state, position, running, pc, line, log, shutdowns, inbox, wait, infer, conn, scr>>

\* bounds of the model
MaxShutdownFailures == 1
MaxClock == 2

\* the input lines, as line.split() gives them
PROMOTION_FEN == <<"8/3P4/8/6k1/8/8/1K6/8", "w", "-", "-", "0", "1">>
PositionLines ==
    { <<"position">>,
      <<"position", "bogus">>,
      <<"position", "startpos">>,
      <<"position", "startpos", "moves", "e2e4">>,
      <<"position", "startpos", "moves", "e2e4", "e7e5">>,
      <<"position", "startpos", "moves", "e2e4", "zz">>,
      <<"position", "startpos", "moves", "e2e4", "e2e9", "e7e5">>,
      <<"position", "startpos", "moves", "e4e5">>,
      <<"position", "startpos", "moves", "0000">>,
      <<"position", "fen">> \o PROMOTION_FEN,
      <<"position", "fen">> \o PROMOTION_FEN \o <<"moves", "d7d8q">>,
      <<"position", "fen">> \o PROMOTION_FEN \o <<"moves", "zz">>,
      <<"position", "fen", "8/8", "w">>,
      <<"position", "fen">> }
OtherLines ==
    { <<"uci">>, <<"isready">>, <<"ucinewgame">>, <<"go">>, <<"go", "ponder">>,
      <<"stop">>, <<"ponderhit">>, <<"quit">>, <<"QUIT">>, <<"xyzzy">>,
      <<"setoption">>,
      <<"setoption", "name", "Skill", "Level", "value", "3">>,
      <<"setoption", "name", "Clear", "Hash">> }
Lines == PositionLines \cup OtherLines

\* the moves the connector's own-move wait may report
EngineMoves ==
    {Move(SquareAt(6, 0), SquareAt(5, 2), NoType),    \* g1f3
     Move(SquareAt(4, 1), SquareAt(4, 3), NoType),    \* e2e4
     NullMove}

\* what get_options() may return
OptionLists ==
    { <<>>,
      << [name |-> "Skill Level",
          def |-> [type |-> "spin", default |-> "1", min |-> "1", max |-> "9"]],
         [name |-> "Clear Hash", def |-> [type |-> "button"]] >> }

Outcome == {"true", "false", "raise"}

\* one choice of what the connector does at each call of a step
DefaultEnv ==
    [initialize |-> "true", initialize2 |-> "true", attempt_recovery |-> "false",
     is_emulator_ready |-> "true", setup_new_game |-> "true", engine_color |-> "white",
     setup_position |-> "true", wait |-> "none", move |-> NullMove,
     supports_pondering |-> "false", stop_calculation |-> "false",
     stop_pondering |-> "none", set_option |-> "false", get_options |-> "ok",
     options |-> <<>>, shutdown |-> "return"]

ShutdownOutcomes ==
    IF shutdowns < MaxShutdownFailures THEN {"return", "raise"} ELSE {"return"}

MoveOutcomes ==
    IF position.hm < MaxClock /\ position.fm < MaxClock
    THEN {<<"none", NullMove>>, <<"raise", NullMove>>} \cup {<<"move", m>> : m \in EngineMoves}
    ELSE {<<"none", NullMove>>, <<"raise", NullMove>>}

\* the connector behaviours that can matter to a line in the current state: a
\* call that is not reached keeps its default
Envs(parts) ==
    LET command == Lower(parts[1])
        ponder == \E i \in 2..Len(parts) : parts[i] = "ponder"
    IN  CASE command = "uci" ->
                {[DefaultEnv EXCEPT !.get_options = "ok", !.options = o] : o \in OptionLists}
                    \cup {[DefaultEnv EXCEPT !.get_options = "raise"]}
          [] command = "isready" ->
                {[DefaultEnv EXCEPT !.attempt_recovery = a, !.initialize = i,
                                    !.is_emulator_ready = r, !.initialize2 = j] :
                    a \in (IF state = "ERROR" THEN Outcome ELSE {"false"}),
                    i \in (IF state = "ERROR" THEN Outcome ELSE {"true"}),
                    r \in Outcome, j \in Outcome}
          [] command = "ucinewgame" ->
                {[DefaultEnv EXCEPT !.setup_new_game = n, !.engine_color = c] :
                    n \in Outcome, c \in {"white", "black"}}
          [] command = "go" ->
                {[DefaultEnv EXCEPT !.setup_position = p, !.wait = w[1], !.move = w[2],
                                    !.supports_pondering = s] :
                    p \in Outcome, w \in MoveOutcomes,
                    s \in (IF ponder THEN Outcome ELSE {"false"})}
          [] command = "stop" ->
                {[DefaultEnv EXCEPT !.stop_calculation = c, !.stop_pondering = w[1],
                                    !.move = w[2]] :
                    c \in (IF state = "COMPUTING" THEN Outcome ELSE {"false"}),
                    w \in (IF state = "PONDERING" THEN MoveOutcomes ELSE {<<"none", NullMove>>})}
          [] command = "setoption" -> {[DefaultEnv EXCEPT !.set_option = o] : o \in Outcome}
          [] command = "quit" -> {[DefaultEnv EXCEPT !.shutdown = o] : o \in ShutdownOutcomes}
          [] OTHER -> {DefaultEnv}

Handler0 ==
    [state |-> state, position |-> position, running |-> running,
     log |-> <<>>, raised |-> FALSE]

CountCalls(events, name) ==
    Cardinality({i \in 1..Len(events) : events[i].ev = "call" /\ events[i].a = name})

\* wait_for_engine_move of the connectors (Grandmaster_Chess.py lines 276-278):
\* polls counts the iterations of the polling loop, stable is stable_count and
\* last is last_fen, as "none", "pre" (the board before the move) or "post"
NoWait == [polls |-> 0, stable |-> 0, last |-> "none"]

\* no call of moveFromFens has been made
NoInfer ==
    [tag |-> "none", before |-> StartingBoard, after |-> StartingBoard,
     move |-> NullMove, result |-> Failure("none")]
\* a connector as its constructor leaves it (connector.py lines 73-76,
\* Chess_19xx.py lines 73-75): no Playwright handle (0 is None), no board region,
\* not initialized; live holds the backend resources that are open, launches
\* counts the browser sessions started, op and result are the last call
NoHandles == [playwright |-> 0, browser |-> 0, context |-> 0, page |-> 0]
NewConn(kind) ==
    [kind |-> kind, initialized |-> FALSE, board_region |-> FALSE, handles |-> NoHandles,
     live |-> {}, launches |-> 0, calls |-> 0, op |-> "none", result |-> "none"]
NoConn == NewConn("none")
\* get_board_state(): Board(None) with the pieces read from the screen set on
\* it; it knows nothing but the placement
Snapshot(pcs) == MakeBoard(pcs, WHITE, {}, {}, 0, 1)
\* a connector of some kind in front of an emulator that plays `game` and
\* shows its placement; no call has been made
NewScreen(kind, game) ==
    [kind |-> kind, game |-> game, start |-> game, shown |-> game.pcs, moved |-> NullMove,
     phase |-> "idle", given |-> FALSE, board |-> game, pre |-> Snapshot(game.pcs),
     samples |-> 0, tries |-> 0, confirmed |-> FALSE, streak |-> [pcs |-> EmptyPieces, len |-> 0],
     polls |-> 0, stable |-> 0, last |-> [seen |-> FALSE, pcs |-> EmptyPieces],
     op |-> "none", result |-> Failure("none"), failure |-> "none"]
NoScreen == [NewScreen("none", StartingBoard) EXCEPT !.phase = "none"]

\* the handler's fields after a step become the state
Takes(h, parts) ==
    /\ state' = h.state
    /\ position' = h.position
    /\ running' = h.running
    /\ log' = h.log
    /\ line' = parts
    /\ shutdowns' = shutdowns + CountCalls(h.log, "shutdown")
    /\ UNCHANGED <<infer, conn, scr>>

\* a step of a run whose input is read line by line as it is processed
Becomes(h, parts) ==
    /\ Takes(h, parts)
    /\ UNCHANGED <<inbox, wait>>

\* UCIHandler.__init__
Init ==
    /\ state = "INITIALIZING"
    /\ position = StartingBoard
    /\ running = TRUE
    /\ pc = "new"
    /\ line = <<>>
    /\ log = <<>>
    /\ shutdowns = 0
    /\ inbox = <<>>
    /\ wait = NoWait
    /\ infer = NoInfer
    /\ conn = NoConn
    /\ scr = NoScreen

\* run(), line 137: self._initialize()
RunInitialize ==
    /\ pc = "new"
    /\ \E r \in Outcome : Becomes(Initialize(Handler0, r), <<>>)
    /\ pc' = "loop"

\* run(), lines 139-150: a line is read and processed; the loop ends when the
\* step cleared _running, and the state is TERMINATING then
ReadLine ==
    /\ pc = "loop"
    /\ running
    /\ \E parts \in Lines :
        \E env \in Envs(parts) :
            LET h == ProcessCommand(Handler0, parts, env)
            IN  /\ Becomes(h, parts)
                /\ pc' = IF h.running THEN "loop" ELSE "done"

\* run(), lines 145-147: a blank line is skipped
ReadBlank ==
    /\ pc = "loop"
    /\ running
    /\ Becomes(Handler0, <<>>)
    /\ pc' = "loop"

\* run(), lines 155-157: readline() raised; the loop goes on in ERROR
ReadFails ==
    /\ pc = "loop"
    /\ running
    /\ Becomes(TransitionTo(Throw(Handler0, "readline"), "ERROR"), <<>>)
    /\ pc' = "loop"

\* run(), lines 142-143 and 158-160: end of input; the state is not TERMINATING,
\* so _handle_quit([]) runs outside the loop's try, and an exception of
\* shutdown() leaves run()
ReadEof ==
    /\ pc = "loop"
    /\ running
    /\ \E o \in ShutdownOutcomes :
        LET h == IF state # "TERMINATING"
                 THEN HandleQuit(Handler0, <<>>, [DefaultEnv EXCEPT !.shutdown = o])
                 ELSE Handler0
        IN  /\ Becomes(h, <<>>)
            /\ pc' = IF h.raised THEN "crashed" ELSE "done"

Next ==
    \/ RunInitialize
    \/ ReadLine
    \/ ReadBlank
    \/ ReadFails
    \/ ReadEof

Spec == Init /\ [][Next]_vars

(***************************************************************************)
(* The dispatcher alone: _process_command called once on a handler that is *)
(* in any of the phases of GameState                                       *)
(***************************************************************************)
DirectPositions == {StartingBoard, ApplyMoves(StartingBoard, <<"e2e4">>).board}

InitDirect ==
    /\ state \in GameState
    /\ position \in DirectPositions
    /\ running = TRUE
    /\ pc = "direct"
    /\ line = <<>>
    /\ log = <<>>
    /\ shutdowns = 0
    /\ inbox = <<>>
    /\ wait = NoWait
    /\ infer = NoInfer
    /\ conn = NoConn
    /\ scr = NoScreen

Dispatch ==
    /\ pc = "direct"
    /\ \E parts \in Lines :
        \E env \in Envs(parts) :
            Becomes(ProcessCommand(Handler0, parts, env), parts)
    /\ pc' = "returned"

NextDirect == Dispatch

SpecDirect == InitDirect /\ [][NextDirect]_vars

(***************************************************************************)
(* The session with the input stream as a pipe that is written to while    *)
(* run() works, and with go's wait_for_engine_move() taken one polling     *)
(* iteration at a time (GrandmasterChessConnector, Chess19xxConnector)     *)
(***************************************************************************)
\* bounds: lines that can sit unread in the pipe, and the polling iterations
\* that fit in the timeout of wait_for_engine_move (180 s of 0.5 s sleeps)
MaxInbox == 2
WaitPolls == 5

\* "if stable_count >= 3"
STABLE_READS == 3

PipeLines == {<<"stop">>, <<"go">>, <<"isready">>}

\* a variant in which a line is also read while go is blocked in the polling
\* loop; C16_CommandsDoNotOverlap tells it from the code's
AtReadlineOrBlocked == pc \in {"loop", "wait"}

\* run() is at readline(): no handler is in progress
AtReadline == pc = "loop"

\* the GUI writes a line to the pipe
Arrive ==
    /\ pc \in {"loop", "wait"}
    /\ Len(inbox) < MaxInbox
    /\ \E parts \in PipeLines : inbox' = Append(inbox, parts)
    /\ UNCHANGED <<state, position, running, pc, line, log, shutdowns, wait, infer, conn, scr>>

\* _handle_go up to the polling loop: COMPUTING, setup_position(), and the
\* pre-state read by get_board_state()
GoBegins(h, env) ==
    LET h1 == Call(TransitionTo(h, "COMPUTING"), "setup_position", env.setup_position)
    IN  IF h1.raised THEN h1
        ELSE IF env.setup_position # "true" THEN TransitionTo(h1, "ERROR")
        ELSE Call(h1, "get_board_state", "pre")

\* run(), lines 139-150, reading from the pipe: go blocks in the polling loop,
\* every other command is processed as a whole
ReadNext ==
    /\ AtReadline
    /\ running
    /\ Len(inbox) > 0
    /\ inbox' = Tail(inbox)
    /\ LET parts == Head(inbox)
       IN  IF Lower(parts[1]) = "go"
           THEN \E p \in Outcome :
                   LET h == GoBegins(Handler0, [DefaultEnv EXCEPT !.setup_position = p])
                   IN  /\ Takes(Guarded(h), parts)
                       /\ pc' = IF p = "true" THEN "wait" ELSE "loop"
                       /\ wait' = NoWait
           ELSE \E env \in Envs(parts) :
                   /\ Takes(ProcessCommand(Handler0, parts, env), parts)
                   /\ pc' = "loop"
                   /\ wait' = wait

\* _handle_go from the return of wait_for_engine_move() on
GoEnds(h, env) ==
    LET h1 == Call(h, "wait_for_engine_move", MoveResult(env.wait, env.move))
    IN  IF env.wait = "move" /\ MoveBool(env.move) THEN GoBestMove(h1, FALSE, env)
        ELSE GoNoMove(h1)

\* one iteration of "while time.time() - start_time < timeout": the board is
\* read; a changed board that was read STABLE_READS times more gives the move
\* (or None when moveFromFens fails), an exception of get_board_state() leaves
\* the handler
Poll ==
    /\ pc = "wait"
    /\ wait.polls < WaitPolls
    /\ UNCHANGED inbox
    /\ \E seen \in {"pre", "post", "raise"} :
        LET h0 == Call(Handler0, "get_board_state", seen)
            stable == IF seen = "post" /\ wait.last = "post" THEN wait.stable + 1 ELSE 0
        IN  IF seen = "raise"
            THEN Takes(Guarded(h0), line) /\ pc' = "loop" /\ wait' = NoWait
            ELSE IF stable >= STABLE_READS
            THEN \E w \in MoveOutcomes \ {<<"raise", NullMove>>} :
                    /\ Takes(Guarded(GoEnds(h0, [DefaultEnv EXCEPT !.wait = w[1], !.move = w[2]])),
                             line)
                    /\ pc' = "loop"
                    /\ wait' = NoWait
            ELSE /\ Takes(h0, line)
                 /\ pc' = "wait"
                 /\ wait' = [polls |-> wait.polls + 1, stable |-> stable, last |-> seen]

\* the loop condition fails: "Timeout waiting for engine move", None
WaitTimeout ==
    /\ pc = "wait"
    /\ wait.polls >= WaitPolls
    /\ UNCHANGED inbox
    /\ Takes(GoEnds(Handler0, DefaultEnv), line)
    /\ pc' = "loop"
    /\ wait' = NoWait

NextWait ==
    \/ RunInitialize
    \/ Arrive
    \/ ReadNext
    \/ Poll
    \/ WaitTimeout

SpecWait == Init /\ [][NextWait]_vars
(***************************************************************************)
(* moveFromFens called on pairs of boards: SpecInfer                       *)
(***************************************************************************)
\* white king and rooks, black king and rooks, on their home squares
CastlingPieces ==
    [EmptyPieces EXCEPT ![E1] = Piece("k", WHITE), ![A1] = Piece("r", WHITE),
                        ![H1] = Piece("r", WHITE), ![E8] = Piece("k", BLACK),
                        ![A8] = Piece("r", BLACK), ![H8] = Piece("r", BLACK)]
\* the kings, a white pawn on e5 and a black pawn on d5 that has just made
\* its double step
EnPassantPieces ==
    [EmptyPieces EXCEPT ![E1] = Piece("k", WHITE), ![E8] = Piece("k", BLACK),
                        ![SquareAt(4, 4)] = Piece("p", WHITE),
                        ![SquareAt(3, 4)] = Piece("p", BLACK)]

\* the boards moveFromFens is given as `before`
InferPositions ==
    {StartingBoard,
     MakeBoard(CastlingPieces, WHITE, {A1, H1, A8, H8}, {}, 0, 1),
     MakeBoard(CastlingPieces, BLACK, {A1, H1, A8, H8}, {}, 1, 1),
     MakeBoard(PromotionPieces, WHITE, {}, {}, 0, 1),
     MakeBoard(EnPassantPieces, WHITE, {}, {SquareAt(3, 5)}, 0, 3)}

\* boards some plies away from the starting position
PliesAway ==
    LET b1 == Push(StartingBoard, FromUci("e2e4").move).board
        b2 == Push(b1, FromUci("e7e5").move).board
        b3 == Push(b2, Move(G1, SquareAt(5, 2), NoType)).board
    IN  {b2, b3}

\* what a board built from a snapshot, or parsed from a FEN written by hand,
\* may carry besides the placement
Snapshots(pcs) ==
    {MakeBoard(pcs, turn, castling, {}, counters[1], counters[2]) :
        turn \in BOOLEAN, castling \in {{}, {A1, H1, A8, H8}},
        counters \in {<<0, 1>>, <<3, 7>>}}

\* what the screen may show that is not the game's placement: one square
\* misread as empty, or another picture altogether
Glitches(pcs) ==
    LET sq == CHOOSE s \in Squares : pcs[s] # NoPiece /\ \A o \in Squares : pcs[o] # NoPiece => s <= o
    IN  {[pcs EXCEPT ![sq] = NoPiece], EmptyPieces}

\* the dispatcher is not part of these runs
HandlerIdle ==
    /\ state = "INITIALIZING"
    /\ position = StartingBoard
    /\ running = TRUE
    /\ line = <<>>
    /\ log = <<>>
    /\ shutdowns = 0
    /\ inbox = <<>>
    /\ wait = NoWait
handlerVars == <<state, position, running, pc, line, log, shutdowns, inbox, wait>>

InitInfer ==
    /\ HandlerIdle
    /\ pc = "infer"
    /\ infer \in {[NoInfer EXCEPT !.before = b, !.after = b] : b \in InferPositions}
    /\ conn = NoConn
    /\ scr = NoScreen

Inferred(tag, move, after) ==
    /\ infer.tag = "none"
    /\ infer' = [tag |-> tag, before |-> infer.before, after |-> after, move |-> move,
                 result |-> MoveFromFens(infer.before, after)]
    /\ UNCHANGED <<handlerVars, conn, scr>>

\* moveFromFens(p, apply(p, m)) for a legal move m, as the tests call it
InferPlayed ==
    \E m \in LegalMoves(infer.before) : Inferred("played", m, Push(infer.before, m).board)

\* `after` has the placement a legal move gives and any other fields
InferSnapshot ==
    \E m \in LegalMoves(infer.before) :
        \E after \in Snapshots(Push(infer.before, m).board.pcs) :
            Inferred("snapshot", m, after)

\* `after` is a board no move leads to: `before` itself, another position
InferOther ==
    \E after \in InferPositions \cup PliesAway : Inferred("other", NullMove, after)

\* `after` is `before` misread: one piece missing, or no piece at all
InferMisread ==
    \E pcs \in Glitches(infer.before.pcs) :
        Inferred("misread", NullMove, [infer.before EXCEPT !.pcs = pcs])

\* `after` is what a move of the side that is not to move leaves
InferOutOfTurn ==
    \E m \in PseudoLegalMoves([infer.before EXCEPT !.turn = ~@]) :
        Inferred("out of turn", m, Push(infer.before, m).board)

NextInfer == InferPlayed \/ InferSnapshot \/ InferOther \/ InferMisread \/ InferOutOfTurn
SpecInfer == InitInfer /\ [][NextInfer]_vars

(***************************************************************************)
(* the shipped connectors, initialize() and shutdown(): SpecBackend        *)
(***************************************************************************)
MaxCalls == 4

\* the Playwright objects in the order launch_browser creates them
LAUNCH_ORDER == <<"playwright", "browser", "context", "page">>
\* and in the order close_browser closes them
CLOSE_ORDER == <<"page", "context", "browser", "playwright">>

\* GameConnector.launch_browser: failAt is the step that raises (1 start, 2
\* launch, 3 new_context, 4 new_page, 5 goto), 0 when none does; the handles of
\* the steps done are assigned, whatever they held
LaunchBrowser(c, failAt) ==
    LET id == c.launches + 1
        done == IF failAt = 0 THEN 4 ELSE failAt - 1
        made == {LAUNCH_ORDER[k] : k \in 1..(IF done > 4 THEN 4 ELSE done)}
    IN  [ok |-> failAt = 0,
         conn |-> [c EXCEPT !.launches = id,
                            !.handles = [r \in DOMAIN c.handles |->
                                            IF r \in made THEN id ELSE c.handles[r]],
                            !.live = @ \cup {<<id, r>> : r \in made}]]

\* GameConnector.close_browser: each handle that is set is closed and cleared,
\* in CLOSE_ORDER; the close of `failing` raises, and nothing after it is done
CloseBrowser(c, failing) ==
    LET Index(r) == CHOOSE i \in 1..Len(CLOSE_ORDER) : CLOSE_ORDER[i] = r
        raises == failing \in DOMAIN c.handles /\ c.handles[failing] # 0
        stop == IF raises THEN Index(failing) ELSE Len(CLOSE_ORDER) + 1
        closed == {r \in DOMAIN c.handles : Index(r) < stop /\ c.handles[r] # 0}
    IN  [ok |-> ~raises,
         conn |-> [c EXCEPT !.handles = [r \in DOMAIN c.handles |->
                                            IF r \in closed THEN 0 ELSE c.handles[r]],
                            !.live = @ \ {<<c.handles[r], r>> : r \in closed}]]

\* Chess19xxConnector.initialize: _load_classifier, launch_browser,
\* _wait_for_emulator_ready, then the board region and the flag
Chess19xxInitialize(c, load, failAt, ready) ==
    LET launched == LaunchBrowser(c, failAt)
    IN  IF ~load THEN [c EXCEPT !.result = "false"]
        ELSE IF ~launched.ok THEN [launched.conn EXCEPT !.result = "false"]
        ELSE IF ~ready THEN [launched.conn EXCEPT !.result = "false"]
        ELSE [launched.conn EXCEPT !.board_region = TRUE, !.initialized = TRUE,
                                   !.result = "true"]

\* GrandmasterChessConnector.initialize: _load_classifier, then _find_game_window,
\* which sets the board region when it finds the window
GrandmasterInitialize(c, load, found) ==
    IF ~load \/ ~found THEN [c EXCEPT !.result = "false"]
    ELSE [c EXCEPT !.board_region = TRUE, !.initialized = TRUE, !.result = "true"]

\* Chess19xxConnector.shutdown
Chess19xxShutdown(c, failing) ==
    LET closed == CloseBrowser([c EXCEPT !.initialized = FALSE, !.board_region = FALSE],
                               failing)
    IN  [closed.conn EXCEPT !.result = IF closed.ok THEN "none" ELSE "raise"]

\* GrandmasterChessConnector.shutdown
GrandmasterShutdown(c) ==
    [c EXCEPT !.initialized = FALSE, !.board_region = FALSE, !.result = "none"]

InitBackend ==
    /\ HandlerIdle
    /\ pc = "backend"
    /\ infer = NoInfer
    /\ conn \in {NewConn("Grandmaster"), NewConn("Chess19xx")}
    /\ scr = NoScreen

Calls(op, c) ==
    /\ conn.calls < MaxCalls
    /\ conn' = [c EXCEPT !.op = op, !.calls = conn.calls + 1]
    /\ UNCHANGED <<handlerVars, infer, scr>>

\* connector.initialize(), as _initialize and _handle_isready call it
BackendInitialize ==
    \/ /\ conn.kind = "Chess19xx"
       /\ \E load \in BOOLEAN, failAt \in 0..5, ready \in BOOLEAN :
            Calls("initialize", Chess19xxInitialize(conn, load, failAt, ready))
    \/ /\ conn.kind = "Grandmaster"
       /\ \E load \in BOOLEAN, found \in BOOLEAN :
            Calls("initialize", GrandmasterInitialize(conn, load, found))

\* connector.shutdown(), as _handle_quit calls it
BackendShutdown ==
    \/ /\ conn.kind = "Chess19xx"
       /\ \E failing \in DOMAIN NoHandles \cup {"none"} :
            Calls("shutdown", Chess19xxShutdown(conn, failing))
    \/ /\ conn.kind = "Grandmaster"
       /\ Calls("shutdown", GrandmasterShutdown(conn))

NextBackend == BackendInitialize \/ BackendShutdown
SpecBackend == InitBackend /\ [][NextBackend]_vars

(***************************************************************************)
(* the shipped connectors in front of the screen, setup_position() and     *)
(* wait_for_engine_move(): SpecScreen                                      *)
(***************************************************************************)
\* Grandmaster_Chess._copy_position_metadata
CopyPositionMetadata(source, target) ==
    [target EXCEPT !.turn = source.turn, !.castling = source.castling, !.ep = source.ep,
                   !.hm = source.hm, !.fm = source.fm]

\* setup_position(board) of both connectors, the screen having been read
SetupPosition(shown, board) == Fen(Snapshot(shown)) = Fen(board)

\* wait_for_engine_move, Grandmaster_Chess.py lines 269-271 (Chess_19xx.py line
\* 308 copies nothing): pre_state
PreState(s) ==
    IF s.kind = "Grandmaster" /\ s.given
    THEN CopyPositionMetadata(s.board, Snapshot(s.shown))
    ELSE Snapshot(s.shown)

\* lines 292-296 (Chess_19xx.py line 331): post_state
PostState(s) ==
    IF s.kind = "Grandmaster" /\ s.given
    THEN [CopyPositionMetadata(s.pre, Snapshot(s.shown)) EXCEPT !.turn = ~s.pre.turn]
    ELSE Snapshot(s.shown)

\* a variant that lets the failure of moveFromFens leave the wait;
\* C25_WaitReturnsNone tells it from the code's
WaitReturnsUncaught(s, r) ==
    [s EXCEPT !.phase = "done", !.failure = r.kind,
              !.result = IF r.kind = "move" THEN r ELSE Failure("raise")]

\* lines 299-304: what moveFromFens gave, in the try: any Exception gives None
WaitReturns(s, r) ==
    [s EXCEPT !.phase = "done", !.failure = r.kind,
              !.result = IF r.kind = "move" THEN r ELSE Failure("none")]

\* lines 291-304: the changed board has been stable, the move is inferred
WaitInfers(s) == WaitReturns(s, MoveFromFens(s.pre, PostState(s)))

\* what the polling loop has read: the placement of its latest read and the
\* number of consecutive reads, the latest included, that gave that placement
Streak(streak, pcs) ==
    [pcs |-> pcs, len |-> IF streak.len > 0 /\ streak.pcs = pcs THEN streak.len + 1 ELSE 1]

\* a variant that keeps stable_count when the read differs from the one before;
\* C32_StableBeforeInference tells it from the code's
WaitPollNoRestart(s) ==
    LET changed == s.shown # s.pre.pcs
        same == s.last.seen /\ s.last.pcs = s.shown
        counted == [s EXCEPT !.polls = @ + 1, !.stable = @ + 1,
                             !.streak = Streak(@, s.shown)]
    IN  IF changed /\ same
        THEN IF counted.stable >= STABLE_READS THEN WaitInfers(counted) ELSE counted
        ELSE [s EXCEPT !.polls = @ + 1,
                       !.streak = Streak(@, s.shown),
                       !.last = [seen |-> TRUE, pcs |-> s.shown]]

\* one iteration of the polling loop, lines 281-310, the screen having been read
WaitPoll(s) ==
    LET changed == s.shown # s.pre.pcs
        same == s.last.seen /\ s.last.pcs = s.shown
        counted == [s EXCEPT !.polls = @ + 1, !.stable = @ + 1,
                             !.streak = Streak(@, s.shown)]
    IN  IF changed /\ same
        THEN IF counted.stable >= STABLE_READS THEN WaitInfers(counted) ELSE counted
        ELSE [s EXCEPT !.polls = @ + 1, !.stable = 0,
                       !.streak = Streak(@, s.shown),
                       !.last = [seen |-> TRUE, pcs |-> s.shown]]

\* bound: the reads that fit in max_wait (10 s of 0.2 s sleeps)
ConfirmPolls == 2

\* "required_stable_samples = 2"
REQUIRED_STABLE_SAMPLES == 2

\* one iteration of the loop that waits for the expected state, lines 253-264
\* (Chess_19xx.py lines 295-304), the screen having been read
ConfirmRead(s) ==
    IF s.shown = s.board.pcs
    THEN IF s.samples + 1 >= REQUIRED_STABLE_SAMPLES
         THEN [s EXCEPT !.tries = @ + 1, !.samples = @ + 1,
                        !.confirmed = TRUE, !.phase = "capture"]
         ELSE [s EXCEPT !.tries = @ + 1, !.samples = @ + 1]
    ELSE [s EXCEPT !.tries = @ + 1, !.samples = 0]

\* the positions the emulator is in when the connector is used
ScreenPositions ==
    {StartingBoard,
     MakeBoard(PromotionPieces, BLACK, {}, {}, 1, 1),
     MakeBoard(EnPassantPieces, WHITE, {}, {SquareAt(3, 5)}, 0, 3)}

InitScreen ==
    /\ HandlerIdle
    /\ pc = "screen"
    /\ infer = NoInfer
    /\ conn = NoConn
    /\ scr \in {NewScreen(kind, game) :
                    kind \in {"Grandmaster", "Chess19xx"}, game \in ScreenPositions}

ScreenBecomes(s) ==
    /\ scr' = s
    /\ UNCHANGED <<handlerVars, infer, conn>>

\* setup_position(board): get_board_state() raises, or the boards are compared
ScreenSetup ==
    /\ scr.phase = "idle"
    /\ \E board \in {scr.game, Snapshot(scr.game.pcs), MakeBoard(PromotionPieces, WHITE, {}, {}, 0, 1)} :
        \E read \in BOOLEAN :
            ScreenBecomes([scr EXCEPT
                !.op = "setup_position", !.board = board,
                !.result = IF ~read THEN Failure("raise")
                           ELSE IF SetupPosition(scr.shown, board) THEN Failure("true")
                           ELSE Failure("false")])

\* wait_for_engine_move(expected_pre_state) is called, lines 246-251: with an
\* expected state the screen is first read until it matches
WaitBegins ==
    /\ scr.phase = "idle"
    /\ \E given \in BOOLEAN :
        ScreenBecomes([scr EXCEPT !.op = "wait_for_engine_move", !.given = given,
                                  !.board = scr.game, !.failure = "none",
                                  !.result = Failure("pending"),
                                  !.phase = IF given THEN "confirming" ELSE "capture"])

\* lines 253-264: a read of the loop that waits for the expected state, which
\* get_board_state() fails or gives
WaitConfirms ==
    /\ scr.phase = "confirming"
    /\ scr.tries < ConfirmPolls
    /\ \E read \in BOOLEAN :
        ScreenBecomes(IF read THEN ConfirmRead(scr)
                      ELSE [scr EXCEPT !.phase = "done", !.result = Failure("raise")])

\* lines 265-266: max_wait has passed, "proceeding anyway"
ConfirmTimeout ==
    /\ scr.phase = "confirming"
    /\ scr.tries >= ConfirmPolls
    /\ ScreenBecomes([scr EXCEPT !.phase = "capture"])

\* lines 269-278: the pre-state is read
WaitCaptures ==
    /\ scr.phase = "capture"
    /\ \E read \in BOOLEAN :
        ScreenBecomes(IF read THEN [scr EXCEPT !.phase = "polling", !.pre = PreState(scr),
                                               !.tries = 0, !.samples = 0]
                      ELSE [scr EXCEPT !.phase = "done", !.result = Failure("raise")])

\* the wait is between its first line and its return
Waiting == scr.phase \in {"confirming", "capture", "polling"}

\* the emulator plays its move and shows it
BackendMoves ==
    /\ Waiting
    /\ scr.moved = NullMove
    /\ scr.shown = scr.game.pcs
    /\ \E m \in LegalMoves(scr.game) :
        LET after == Push(scr.game, m).board
        IN  ScreenBecomes([scr EXCEPT !.game = after, !.shown = after.pcs, !.moved = m])

\* the screen is misread, or shows something else
ScreenGlitch ==
    /\ Waiting
    /\ scr.moved = NullMove
    /\ scr.shown = scr.game.pcs
    /\ \E pcs \in Glitches(scr.shown) : ScreenBecomes([scr EXCEPT !.shown = pcs])

\* the screen shows the game again
ScreenSettles ==
    /\ Waiting
    /\ scr.shown # scr.game.pcs
    /\ ScreenBecomes([scr EXCEPT !.shown = scr.game.pcs])

\* an iteration of the polling loop: get_board_state() raises, or the iteration
ScreenPoll ==
    /\ scr.phase = "polling"
    /\ scr.polls < WaitPolls
    /\ \E read \in BOOLEAN :
        ScreenBecomes(IF read THEN WaitPoll(scr)
                      ELSE [scr EXCEPT !.phase = "done", !.result = Failure("raise")])

\* lines 312-313: the loop condition fails
ScreenTimeout ==
    /\ scr.phase = "polling"
    /\ scr.polls >= WaitPolls
    /\ ScreenBecomes([scr EXCEPT !.phase = "done", !.result = Failure("none")])

NextScreen ==
    \/ ScreenSetup
    \/ WaitBegins
    \/ WaitConfirms
    \/ ConfirmTimeout
    \/ WaitCaptures
    \/ BackendMoves
    \/ ScreenGlitch
    \/ ScreenSettles
    \/ ScreenPoll
    \/ ScreenTimeout
SpecScreen == InitScreen /\ [][NextScreen]_vars

(***************************************************************************)
(* Properties                                                              *)
(***************************************************************************)
\* the command of a line, as _process_command takes it
CommandOf(parts) == IF Len(parts) = 0 THEN "" ELSE Lower(parts[1])
\* the step from the current state processes an input line with this command
Processes(command) == pc = "loop" /\ CommandOf(line') = command

HasRaise(events) == \E i \in 1..Len(events) : events[i].ev = "raise"
HasCall(events, name, result) ==
    \E i \in 1..Len(events) : events[i] = Called(name, result)
NoCalls(events) == \A i \in 1..Len(events) : events[i].ev # "call"
OutputIndexes(events) == {i \in 1..Len(events) : events[i].ev = "output"}
OutputsOf(events) == {events[i].a : i \in OutputIndexes(events)}
CountOutput(events, text) ==
    Cardinality({i \in OutputIndexes(events) : events[i].a = text})

\* C1: a command that is not in VALID_COMMANDS of the current phase (an unknown
\* command included) leaves the phase as it is and calls nothing on the connector
C1_InvalidCommandIgnored ==
    [][(pc = "loop" /\ line' # <<>> /\ CommandOf(line') \notin VALID_COMMANDS[state])
        => (state' = state /\ NoCalls(log'))]_vars

\* C2: a quit line ends the run, a run that has ended is in TERMINATING, and
\* shutdown() was called exactly once in it
C2_QuitShutsDownOnce ==
    /\ CommandOf(line) = "quit" => pc = "done"
    /\ pc \in {"done", "crashed"} => state = "TERMINATING" /\ shutdowns = 1

\* C3: after a command whose handler raised the phase is ERROR and run() goes on
\* reading; run() ends only by a quit line or at end of input
C3_HandlerErrorKeepsSession ==
    /\ (line # <<>> /\ HasRaise(log)) => (state = "ERROR" /\ pc = "loop" /\ running)
    /\ pc \in {"done", "crashed"} => (CommandOf(line) = "quit" \/ line = <<>>)
C3_Witness ==
    /\ line = <<"go">>
    /\ HasCall(log, "wait_for_engine_move", "raise")
    /\ state = "ERROR"
    /\ pc = "loop"

\* C4: in ERROR every command other than isready and quit leaves the phase ERROR
C4_ErrorLeftOnlyByIsreadyOrQuit ==
    [][(pc = "loop" /\ state = "ERROR" /\ line' # <<>>
            /\ CommandOf(line') \notin {"isready", "quit"})
        => state' = "ERROR"]_vars

\* C5: once the phase has become TERMINATING it does not change again, and a
\* line processed in TERMINATING changes neither phase nor position and writes
\* and calls nothing
TerminatingIsLast(events) ==
    \A i \in 1..Len(events) :
        events[i] = Transition("TERMINATING")
            => \A j \in (i + 1)..Len(events) : events[j].ev # "transition"
C5_TerminatingIsTerminal ==
    /\ [](TerminatingIsLast(log))
    /\ [][state = "TERMINATING"
            => (state' = state /\ position' = position /\ log' = <<>>)]_vars
\* C6: isready in ERROR starts with a recovery attempt; readyok is written at
\* most once, and exactly when the connector reported ready or the initialize
\* that follows a negative report succeeded; otherwise the phase becomes ERROR
ProbeIndexes(events) ==
    {i \in 1..Len(events) : events[i].ev = "call" /\ events[i].a = "is_emulator_ready"}
ReportedReady(events) ==
    \E i \in ProbeIndexes(events) :
        \/ events[i].r = "true"
        \/ \E j \in (i + 1)..Len(events) : events[j] = Called("initialize", "true")
C6_IsreadyReportsReadiness ==
    [][Processes("isready")
        => /\ state = "ERROR" => (Len(log') > 0 /\ log'[1].ev = "call"
                                    /\ log'[1].a = "attempt_recovery")
           /\ CountOutput(log', "readyok") = IF ReportedReady(log') THEN 1 ELSE 0
           /\ ~ReportedReady(log') => state' = "ERROR"]_vars
C6_Witness ==
    /\ line = <<"isready">>
    /\ log[1] = Called("attempt_recovery", "true")
    /\ HasCall(log, "is_emulator_ready", "false")
    /\ CountOutput(log, "readyok") = 1
    /\ state = "GAME_READY"

\* C7: ucinewgame first moves to CONFIGURING and calls setup_new_game(); when
\* that succeeds the position is the starting position and the phase COMPUTING
\* for a white engine, OBSERVING otherwise; when it fails the phase is ERROR and
\* the position is left as it was
C7_UcinewgameResets ==
    [][Processes("ucinewgame")
        => /\ Len(log') >= 2
           /\ log'[1] = Transition("CONFIGURING")
           /\ log'[2].ev = "call" /\ log'[2].a = "setup_new_game"
           /\ log'[2].r = "true"
                => /\ position' = StartingBoard
                   /\ HasCall(log', "engine_color", "white") => state' = "COMPUTING"
                   /\ HasCall(log', "engine_color", "black") => state' = "OBSERVING"
                   /\ state' \in {"COMPUTING", "OBSERVING"}
           /\ log'[2].r # "true"
                => (state' = "ERROR" /\ position' = position)]_vars
C7_Witness ==
    /\ line = <<"ucinewgame">>
    /\ HasCall(log, "setup_new_game", "true")
    /\ HasCall(log, "engine_color", "black")
    /\ state = "OBSERVING"
    /\ position = StartingBoard

\* C8: go, when setup_position() succeeded, wait_for_engine_move() returned a
\* move m and nothing raised, wrote the one line "bestmove <m>", pushed m on the
\* position and ended in OBSERVING
C8_GoPlaysBestmove ==
    [][\A m \in EngineMoves :
        (/\ Processes("go")
         /\ MoveBool(m)
         /\ HasCall(log', "setup_position", "true")
         /\ HasCall(log', "wait_for_engine_move", MoveUci(m))
         /\ ~HasRaise(log'))
        => /\ OutputsOf(log') = {"bestmove " \o MoveUci(m)}
           /\ CountOutput(log', "bestmove " \o MoveUci(m)) = 1
           /\ position' = Push(position, m).board
           /\ state' = "OBSERVING"]_vars
C8_Witness ==
    /\ line = <<"go">>
    /\ HasCall(log, "wait_for_engine_move", "e2e4")
    /\ OutputsOf(log) = {"bestmove e2e4"}
    /\ position = Push(StartingBoard, Move(SquareAt(4, 1), SquareAt(4, 3), NoType)).board
    /\ state = "OBSERVING"

\* C9: go, when wait_for_engine_move() returned no move, wrote no bestmove line,
\* ended in OBSERVING and left the position as it was
ScenarioBoard == ApplyMoves(StartingBoard, <<"e2e4", "e7e5">>).board
C9_GoWithoutMove ==
    [][(Processes("go") /\ HasCall(log', "wait_for_engine_move", "none"))
        => /\ OutputsOf(log') = {}
           /\ state' = "OBSERVING"
           /\ position' = position]_vars
C9_Witness ==
    /\ CommandOf(line) = "go"
    /\ HasCall(log, "wait_for_engine_move", "none")
    /\ OutputsOf(log) = {}
    /\ state = "OBSERVING"
    /\ position = ScenarioBoard

\* C10: a position command whose move list holds a token that is not a move
\* leaves the position as it was before the command
MoveListOf(parts) ==
    IF FirstIndex(parts, "moves") = 0 THEN <<>>
    ELSE SubSeq(parts, FirstIndex(parts, "moves") + 2, Len(parts))
HasBadToken(parts) ==
    \E i \in 1..Len(MoveListOf(parts)) : ~FromUci(MoveListOf(parts)[i]).ok
C10_BadMoveListKeepsPosition ==
    [][(Processes("position") /\ HasBadToken(line')) => position' = position]_vars
\* C11: a position line that is malformed (no arguments, an unknown position
\* type, or a FEN that Board() rejects) leaves the position and the phase as
\* they were
FenPartsOf(parts) ==
    LET args == Tail(parts)
        idx == FirstIndex(args, "moves")
    IN  IF idx # 0 THEN SubSeq(args, 2, idx) ELSE Tail(args)
Malformed(parts) ==
    \/ Len(parts) = 1
    \/ parts[2] \notin {"startpos", "fen"}
    \/ parts[2] = "fen" /\ ~ParseFen(FenPartsOf(parts)).ok
C11_MalformedPositionIgnored ==
    [][(Processes("position") /\ Malformed(line'))
        => (position' = position /\ state' = state)]_vars

\* C12: a well-formed position line whose moves can all be played in turn makes
\* the position the base position with the moves applied in order, whatever
\* the position was; the phase is unchanged and nothing is called
BaseOf(parts) ==
    IF parts[2] = "startpos" THEN StartingBoard ELSE ParseFen(FenPartsOf(parts)).board
RECURSIVE Replay(_, _)
Replay(b, toks) ==
    IF Len(toks) = 0 THEN b
    ELSE Replay(Push(b, FromUci(Head(toks)).move).board, Tail(toks))
\* each token is a move of a piece of the side to move to a square that holds
\* none of its own pieces; on the move lists of Lines this is legality
RECURSIVE Playable(_, _)
Playable(b, toks) ==
    IF Len(toks) = 0 THEN TRUE
    ELSE LET p == FromUci(Head(toks))
         IN  /\ p.ok
             /\ MoveBool(p.move)
             /\ OwnAt(b, p.move.from, b.turn)
             /\ ~OwnAt(b, p.move.to, b.turn)
             /\ Playable(Push(b, p.move).board, Tail(toks))
C12_PositionReplaysMoves ==
    [][(/\ Processes("position")
        /\ ~Malformed(line')
        /\ Playable(BaseOf(line'), MoveListOf(line')))
        => /\ position' = Replay(BaseOf(line'), MoveListOf(line'))
           /\ state' = state
           /\ NoCalls(log')]_vars
C12_Witness ==
    /\ line = <<"position", "fen">> \o PROMOTION_FEN \o <<"moves", "d7d8q">>
    /\ PieceAt(position, SquareAt(3, 7)) = Piece("q", WHITE)
    /\ PieceAt(position, SquareAt(3, 6)) = NoPiece
    /\ position.turn = BLACK
    /\ state = "OBSERVING"

\* C13: a position, ucinewgame or go command that is not in VALID_COMMANDS of
\* the current phase leaves the position as it was
C13_InvalidCommandKeepsPosition ==
    [][(/\ pc = "loop"
        /\ CommandOf(line') \in {"position", "ucinewgame", "go"}
        /\ CommandOf(line') \notin VALID_COMMANDS[state])
        => position' = position]_vars
\* the step from the current state is _process_command called with this command
ProcessesDirect(command) == pc = "direct" /\ CommandOf(line') = command
IsOutput(e) == e.ev = "output"
\* the lines written in a step, in order
OutputSeq(events) == [i \in 1..Len(SelectSeq(events, IsOutput)) |-> SelectSeq(events, IsOutput)[i].a]
FirstCallIs(events, name) ==
    Len(events) > 0 /\ events[1].ev = "call" /\ events[1].a = name

\* C14: stop in COMPUTING calls stop_calculation() and, whatever that returns,
\* ends in OBSERVING; in PONDERING it calls stop_pondering(), writes a bestmove
\* line exactly when a move came back, and ends in OBSERVING; in CONFIGURING it
\* ends in GAME_READY; in every other phase it changes no phase, writes nothing
\* and calls nothing
C14_StopByPhase ==
    [][ProcessesDirect("stop")
        => /\ state = "COMPUTING"
                => /\ FirstCallIs(log', "stop_calculation")
                   /\ log'[1].r \in {"true", "false"}
                        => (state' = "OBSERVING" /\ OutputSeq(log') = <<>>)
           /\ state = "PONDERING"
                => /\ FirstCallIs(log', "stop_pondering")
                   /\ log'[1].r # "raise" => state' = "OBSERVING"
                   /\ log'[1].r \in {"none", "raise", MoveUci(NullMove)}
                        => OutputSeq(log') = <<>>
                   /\ log'[1].r \notin {"none", "raise", MoveUci(NullMove)}
                        => OutputSeq(log') = <<"bestmove " \o log'[1].r>>
           /\ state = "CONFIGURING"
                => (state' = "GAME_READY" /\ NoCalls(log') /\ OutputSeq(log') = <<>>)
           /\ state \notin {"COMPUTING", "PONDERING", "CONFIGURING"}
                => (state' = state /\ NoCalls(log') /\ OutputSeq(log') = <<>>)]_vars
C14_Witness ==
    /\ pc = "returned"
    /\ line = <<"stop">>
    /\ HasCall(log, "stop_pondering", "e2e4")
    /\ OutputSeq(log) = <<"bestmove e2e4">>
    /\ state = "OBSERVING"

\* C17: ponderhit in PONDERING ends in COMPUTING; in every other phase it
\* changes neither phase nor position, writes nothing and calls nothing
C17_PonderhitOnlyInPondering ==
    [][ProcessesDirect("ponderhit")
        => /\ state = "PONDERING" => state' = "COMPUTING"
           /\ state # "PONDERING"
                => /\ state' = state
                   /\ position' = position
                   /\ OutputSeq(log') = <<>>
                   /\ NoCalls(log')]_vars
C17_Witness ==
    /\ pc = "returned"
    /\ line = <<"ponderhit">>
    /\ log = <<Transition("COMPUTING")>>
    /\ state = "COMPUTING"

\* the answer to uci for a connector that declares the options opts
RECURSIVE OptionLines(_)
OptionLines(opts) ==
    IF Len(opts) = 0 THEN <<>>
    ELSE <<OptionString(Head(opts))>> \o OptionLines(Tail(opts))
UciAnswer(opts) ==
    <<"id name " \o ConnectorName, "id author " \o ConnectorAuthor>>
        \o OptionLines(opts) \o <<"uciok">>
UciAnswered(events) ==
    \E opts \in OptionLists :
        /\ \E i \in 1..Len(events) :
            events[i] = Ev("call", "get_options", "ok", OptionNames(opts))
        /\ OutputSeq(events) = UciAnswer(opts)
StopPending == \E i \in 1..Len(inbox) : inbox[i] = <<"stop">>
\* the step is one of go's wait: a polling iteration or the timeout
WaitStep == pc = "wait" /\ inbox' = inbox

\* C15: when a stop line has arrived while go is blocked in the polling loop
\* of wait_for_engine_move(), the next polling iteration ends the wait, so go
\* returns before the timeout
C15_StopEndsBlockedGo ==
    [][(WaitStep /\ StopPending /\ wait.polls < WaitPolls) => pc' = "loop"]_vars

\* C16: a line is taken from the input only when no handler is in progress,
\* and while go is blocked in its wait everything that is called and every
\* change of phase or position is go's
C16_CommandsDoNotOverlap ==
    /\ [][Len(inbox') < Len(inbox) => pc = "loop"]_vars
    /\ [][pc = "wait" => (line' = line /\ CommandOf(line) = "go")]_vars
    /\ [](pc = "wait" => (CommandOf(line) = "go" /\ state = "COMPUTING"))
C16_Witness ==
    /\ pc = "wait"
    /\ wait.polls >= 2
    /\ Len(inbox) = 2
    /\ inbox[1] = <<"stop">>
    /\ line = <<"go">>
    /\ log = <<Called("get_board_state", "pre")>>
\* C18: the phase is never PONDERING, at the end of a step or inside one; in
\* particular not for a connector whose supports_pondering() is False
C18_NeverPondering ==
    /\ state # "PONDERING"
    /\ \A i \in 1..Len(log) : log[i] # Transition("PONDERING")
C18_Witness ==
    /\ line = <<"go", "ponder">>
    /\ HasCall(log, "supports_pondering", "false")
    /\ OutputSeq(log) = <<"bestmove e2e4">>
    /\ state = "OBSERVING"

\* what the well-formed setoption lines of Lines forward, as "name=value"
ForwardedOption ==
    [l \in {<<"setoption", "name", "Skill", "Level", "value", "3">>,
            <<"setoption", "name", "Clear", "Hash">>} |->
        IF Len(l) = 6 THEN "Skill Level=3" ELSE "Clear Hash="]
\* C19: setoption calls set_option(name, value) once with the name and value of
\* the line, and whether that returns True or False it changes neither phase
\* nor position and writes nothing
C19_SetoptionForwards ==
    [][(Processes("setoption") /\ ~HasRaise(log'))
        => /\ state' = state
           /\ position' = position
           /\ OutputSeq(log') = <<>>
           /\ line' \in DOMAIN ForwardedOption
                => /\ Len(log') = 1
                   /\ log'[1] \in {Ev("call", "set_option", r, ForwardedOption[line']) :
                                    r \in {"true", "false"}}]_vars
C19_Witness ==
    /\ line = <<"setoption", "name", "Skill", "Level", "value", "3">>
    /\ log = <<Ev("call", "set_option", "false", "Skill Level=3")>>
    /\ state = "GAME_READY"
    /\ pc = "loop"

\* C28: a go whose setup_position() returned False ends in ERROR, never calls
\* wait_for_engine_move(), writes no bestmove (nothing at all) and leaves the
\* position as it was
C28_GoSetupFailure ==
    [][(Processes("go") /\ HasCall(log', "setup_position", "false"))
        => /\ state' = "ERROR"
           /\ \A i \in 1..Len(log') :
                ~(log'[i].ev = "call" /\ log'[i].a = "wait_for_engine_move")
           /\ OutputsOf(log') = {}
           /\ position' = position]_vars
C28_Witness ==
    /\ CommandOf(line) = "go"
    /\ HasCall(log, "setup_position", "false")
    /\ state = "ERROR"
    /\ position = ScenarioBoard

\* C21: moveFromFens(p, apply(p, m)) is m for every legal move m from p
C21_RoundTrip ==
    infer.tag = "played" => infer.result = Returned(infer.move)

\* C22: a queenside castle is returned as the move of the king to the square
\* the castling rook came from (e1a1, e8a8), not as the king's move to the c-file
QueensideCastle(b, m) ==
    /\ TypeAt(b, m.from) = "k"
    /\ m \in {Move(E1, C1, NoType), Move(E8, C8, NoType)}
    /\ m \in CastlingMoves(b)
C22_QueensideCastleAsKingToRook ==
    (infer.tag = "played" /\ QueensideCastle(infer.before, infer.move))
        => infer.result = Returned(Move(infer.move.from, infer.move.from - 4, NoType))
C22_Witness ==
    /\ infer.tag = "played"
    /\ QueensideCastle(infer.before, infer.move)
    /\ infer.move = Move(E1, C1, NoType)
    /\ infer.result = Returned(Move(E1, A1, NoType))

\* C23: when more than four squares differ, moveFromFens fails with the failure
\* of its line 18, which is neither the "no valid move found" failure nor a move
DifferingSquares(before, after) ==
    {sq \in Squares : PieceAt(before, sq) # PieceAt(after, sq)}
C23_TooManyDifferences ==
    Cardinality(DifferingSquares(infer.before, infer.after)) > 4
        => (infer.result = Failure("TypeError") /\ infer.result.kind \notin {"Exception", "move"})
C23_Witness ==
    /\ infer.tag = "other"
    /\ Cardinality(DifferingSquares(infer.before, infer.after)) = 6
    /\ infer.result = Failure("TypeError")

\* C24: when a pseudo-legal move gives the placement of `after`, moveFromFens
\* returns a move, and the same one whatever side to move, castling rights,
\* en-passant square and counters `after` carries
C24_PlacementOnly ==
    infer.tag \in {"played", "snapshot"}
        => /\ infer.result.kind = "move"
           /\ infer.result = MoveFromFens(infer.before, Push(infer.before, infer.move).board)

\* C26: initialize() never leaves more than one browser open, and a call of it
\* that returns False leaves the handles, the board region and the initialized
\* flag as they were
OpenBrowsers == {x \in conn.live : x[2] = "browser"}
BackendState(c) == <<c.handles, c.board_region, c.initialized>>
IsCall(op) == conn'.calls = conn.calls + 1 /\ conn'.op = op
C26_InitializeIdempotent ==
    /\ [](Cardinality(OpenBrowsers) <= 1)
    /\ [][(IsCall("initialize") /\ conn'.result = "false")
            => BackendState(conn') = BackendState(conn)]_vars

\* C27: after a call of shutdown() the connector holds no handle, no board
\* region and is not initialized; a further call raises nothing and changes
\* nothing
C27_ShutdownRepeatable ==
    [][IsCall("shutdown")
        => /\ BackendState(conn') = <<NoHandles, FALSE, FALSE>>
           /\ conn.op = "shutdown"
                => (conn'.result # "raise" /\ BackendState(conn') = BackendState(conn))]_vars

\* C25: wait_for_engine_move() returns None, and does not raise, when its
\* timeout elapses and when moveFromFens fails (TypeError of too many
\* differences, IndexError, no valid move); the loop makes no more iterations
\* than fit in the timeout
WaitEnds == scr.phase = "polling" /\ scr'.phase = "done"
C25_WaitReturnsNone ==
    /\ [](scr.polls <= WaitPolls)
    /\ [][(WaitEnds /\ (scr.polls >= WaitPolls
                        \/ scr'.failure \in {"TypeError", "IndexError", "Exception"}))
            => scr'.result = Failure("none")]_vars
C25_Witness ==
    /\ scr.phase = "done"
    /\ scr.failure = "TypeError"
    /\ scr.result = Failure("none")

\* C29: setup_position(board) returns True whenever the screen shows the
\* placement of board, whatever else board carries
C29_SetupPlacementOnly ==
    (scr.op = "setup_position" /\ scr.result # Failure("raise")
            /\ scr.shown = scr.board.pcs)
        => scr.result = Failure("true")

\* C30: when the screen showed P as the wait began and shows apply(P, m) as it
\* ends by a stable read, the wait returns m; with and without
\* expected_pre_state
C30_WaitReturnsMove ==
    [][(WaitEnds /\ scr'.failure # "none"
            /\ scr.moved # NullMove
            /\ scr.pre.pcs = scr.start.pcs
            /\ scr.shown = Push(scr.start, scr.moved).board.pcs)
        => scr'.result = Returned(scr.moved)]_vars

\* C31: with expected_pre_state, the pre-move snapshot is read only after the
\* screen matched expected_pre_state on consecutive reads, and it has the
\* placement of expected_pre_state
WaitCaptured == scr.phase = "capture" /\ scr'.phase = "polling"
C31_PreStateIsExpected ==
    [][(WaitCaptured /\ scr.given)
        => (scr.confirmed /\ scr'.pre.pcs = scr.board.pcs)]_vars

\* C32: the wait calls moveFromFens only with a snapshot that differs in
\* placement from the pre-move snapshot and that 4 consecutive polls read (its
\* first appearance and 3 repeats); a poll that reads another placement, or the
\* pre-move placement, restarts the count
WaitInferred == WaitEnds /\ scr'.failure # "none"
C32_StableBeforeInference ==
    /\ [][WaitInferred => /\ scr'.streak.pcs = scr.shown
                           /\ scr'.streak.pcs # scr.pre.pcs
                           /\ scr'.streak.len = STABLE_READS + 1]_vars
    /\ [](scr.phase = "polling"
            => scr.stable = IF scr.streak.len > 0 /\ scr.streak.pcs # scr.pre.pcs
                            THEN scr.streak.len - 1 ELSE 0)
C32_Witness ==
    /\ scr.phase = "done"
    /\ scr.failure = "move"
    /\ scr.streak.len = STABLE_READS + 1
    /\ scr.polls > STABLE_READS + 1

\* C33: when at most four squares differ and no pseudo-legal move of `before`
\* gives the placement of `after`, moveFromFens fails with "no valid move
\* found"; so it does when no square differs and when one does
Reproduces(before, m, after) == Push(before, m).board.pcs = after.pcs
NoMoveReproduces ==
    /\ infer.tag # "none"
    /\ Cardinality(DifferingSquares(infer.before, infer.after)) <= 4
    /\ \A m \in PseudoLegalMoves(infer.before) : ~Reproduces(infer.before, m, infer.after)
C33_NoMatchingMove == NoMoveReproduces => infer.result = Failure("Exception")

\* C34: a move that moveFromFens returns is pseudo-legal on `before`, goes from
\* a differing square to a differing square, and gives the placement of `after`
C34_InferenceSound ==
    infer.result.kind = "move"
        => /\ IsPseudoLegal(infer.before, infer.result.move)
           /\ {infer.result.move.from, infer.result.move.to}
                  \subseteq DifferingSquares(infer.before, infer.after)
           /\ Reproduces(infer.before, infer.result.move, infer.after)
C34_Witness ==
    /\ infer.tag = "played"
    /\ infer.result = Returned(infer.move)
    /\ Cardinality(DifferingSquares(infer.before, infer.after)) = 3

\* C35: when run() is about to read a line the phase is neither INITIALIZING nor
\* CONFIGURING; _initialize() in run() and in the recovery of isready ends in
\* GAME_READY or ERROR, and ucinewgame ends in COMPUTING, OBSERVING or ERROR
LoopPhases == {"GAME_READY", "COMPUTING", "PONDERING", "OBSERVING", "ERROR", "TERMINATING"}
Recovered(events) == HasCall(events, "attempt_recovery", "true")
C35_TransientPhases ==
    /\ [](pc = "loop" => state \in LoopPhases)
    /\ [][pc = "new" => state' \in {"GAME_READY", "ERROR"}]_vars
    /\ [][(Processes("isready") /\ Recovered(log')) => state' \in {"GAME_READY", "ERROR"}]_vars
    /\ [][Processes("ucinewgame") => state' \in {"COMPUTING", "OBSERVING", "ERROR"}]_vars
C35_Witness ==
    /\ pc = "loop"
    /\ line = <<"isready">>
    /\ Recovered(log)
    /\ \E i \in 1..Len(log) : log[i] = Transition("INITIALIZING")
    /\ state = "GAME_READY"

\* C36: an isready that writes readyok does not end in ERROR
C36_ReadyokNotInError ==
    [][(Processes("isready") /\ CountOutput(log', "readyok") > 0)
        => state' # "ERROR"]_vars

\* C37: isready in COMPUTING or OBSERVING keeps the position, and keeps the
\* phase or ends in ERROR
C37_IsreadyKeepsGame ==
    [][(Processes("isready") /\ state \in {"COMPUTING", "OBSERVING"})
        => (position' = position /\ state' \in {state, "ERROR"})]_vars

\* C38: in every phase uci, isready, stop, ponderhit, setoption, quit and the
\* commands without a handler leave the position as it was; the position changes
\* only by position, by a ucinewgame whose setup_new_game() returned True and by
\* a go whose wait gave a move
FrameCommands == {"uci", "isready", "stop", "ponderhit", "setoption", "quit"}
GotMove(events) ==
    \E i \in 1..Len(events) :
        /\ events[i].ev = "call"
        /\ events[i].a = "wait_for_engine_move"
        /\ events[i].r \notin {"none", "raise", MoveUci(NullMove)}
C38_PositionFrame ==
    [][pc = "direct"
        => /\ (CommandOf(line') \in FrameCommands \/ CommandOf(line') \notin CommandHandlers)
                => position' = position
           /\ position' # position
                => \/ CommandOf(line') = "position"
                   \/ CommandOf(line') = "ucinewgame" /\ HasCall(log', "setup_new_game", "true")
                   \/ CommandOf(line') = "go" /\ GotMove(log')]_vars
C38_Witness ==
    /\ pc = "returned"
    /\ line = <<"stop">>
    /\ OutputSeq(log) = <<"bestmove g1f3">>
    /\ position = ApplyMoves(StartingBoard, <<"e2e4">>).board

\* C39: from the start of run() on, no more bestmove lines have been written
\* than go commands processed: every step of run() that processes a go command
\* writes at most one bestmove line and every other step writes none (stop
\* writes one in PONDERING only, a phase run() is never in)
BestmoveLines == {"bestmove " \o MoveUci(m) : m \in EngineMoves}
CountBestmoves(events) ==
    Cardinality({i \in OutputIndexes(events) : events[i].a \in BestmoveLines})
C39_BestmovePerGo ==
    /\ [][CountBestmoves(log') <= IF Processes("go") THEN 1 ELSE 0]_vars
    /\ [][CountBestmoves(log') > 0
            => (Processes("go") \/ (Processes("stop") /\ state = "PONDERING"))]_vars
C39_Witness ==
    /\ pc = "loop"
    /\ line = <<"go", "ponder">>
    /\ CountBestmoves(log) = 1
    /\ OutputsOf(log) \subseteq BestmoveLines
====
